---- MODULE Spec2Model ----
(***************************************************************************)
(* Schedulify: the timetable optimisation engine.                          *)
(*   backend/app/services/genetic_algorithm.py   GeneticTimetableOptimizer *)
(*   backend/app/services/timetable_optimizer.py TimetableOptimizer        *)
(*                                                                         *)
(* Encoding.  A clock string "HH:MM" is the pair <<HH, MM>>; strings of    *)
(* that zero-padded form compare as the pairs do lexicographically.  A     *)
(* timetable is day -> time slot -> class_info or None; a day is its index *)
(* in working_days, a time slot its index in time_slots.  A room string    *)
(* "Lab 2" is <<"Lab", 2>>, a session_part "1/2" is <<1, 2>>.  Fitness is  *)
(* kept in units of 1/FitDen so that scheduled/required*80 stays exact.    *)
(***************************************************************************)
EXTENDS Integers, Sequences, FiniteSets, TLC

(* ------------------------------ bounds -------------------------------- *)
\* len(working_days)
NumDays == 2
\* resources['classrooms']
NumRooms == 2
\* longest slot grid the inputs may produce
MaxSlots == 2
\* scaled-down values of the optimizer's parameters
population_size == 2
generations == 3
early_stop_generations == 2
elite_size == 1
tournament_size == 2

(* ------------------------- program constants -------------------------- *)
target_fitness == 9500
max_workers == 4
\* the cooling schedules: 1000 * 0.95^k > 1 for k = 0..134, 100 iterations
\* each; 100 * 0.9^k > 1 for k = 0..43, 50 iterations each
SATemperatureSteps == 135
SAIterationsPerTemperature == 100
HybridTemperatureSteps == 44
HybridIterationsPerTemperature == 50

\* denominator of the fitness unit: 80 / lectures_per_week and
\* 100 / lectures_per_week are whole for lectures_per_week in {1, 2, 3}
FitDen == 6

DayNames == <<"Monday", "Tuesday", "Wednesday", "Thursday", "Friday">>
working_days == [d \in 1..NumDays |-> DayNames[d]]
Days == 1..NumDays

\* rank of a day name in sorted(working_days) (alphabetical)
AlphaRank(name) ==
  CASE name = "Friday" -> 1
    [] name = "Monday" -> 2
    [] name = "Thursday" -> 3
    [] name = "Tuesday" -> 4
    [] name = "Wednesday" -> 5

None == [type |-> "None"]

VARIABLES
  constraints,     \* the constraints dict: start_time, end_time, lecture_duration, lunch_start, lunch_end
  courses,         \* the list of Course
  algorithm,       \* 'genetic' | 'simulated_annealing' | 'hybrid'
  pc,              \* position of the run
  time_slots,      \* self.time_slots
  population,      \* optimize's population (list of timetables)
  fitness_cache,   \* self.fitness_cache: key -> fitness
  task,            \* per population index: position of its calculate_fitness call
  fitness_scores,  \* per population index: the value its call returned
  best_fitness, best_individual, convergence_history,
  generations_without_improvement, generation,
  new_population,
  ga_result,       \* what GeneticTimetableOptimizer.optimize returned
  result,          \* what TimetableOptimizer.optimize returned
  sa,              \* the refinement loop's locals
  checked,         \* the timetable handed to the ConstraintsChecker
  constraint_set,  \* the ConstraintSet handed to it: its list of constraints
  returned         \* what the last call of a ConstraintsChecker method returned

vars == <<constraints, courses, algorithm, pc, time_slots, population, fitness_cache,
          task, fitness_scores, best_fitness, best_individual, convergence_history,
          generations_without_improvement, generation, new_population, ga_result,
          result, sa, checked, constraint_set, returned>>

(* ------------------------------ helpers ------------------------------- *)
RECURSIVE SumSeq(_)
SumSeq(s) == IF s = <<>> THEN 0 ELSE Head(s) + SumSeq(Tail(s))

RECURSIVE SumOver(_, _)
SumOver(S, f) ==
  IF S = {} THEN 0
  ELSE LET x == CHOOSE y \in S : TRUE IN f[x] + SumOver(S \ {x}, f)

Max(S) == CHOOSE x \in S : \A y \in S : y <= x

\* "a" <= "b" for zero-padded HH:MM strings
TimeLeq(a, b) == a[1] < b[1] \/ (a[1] = b[1] /\ a[2] <= b[2])
TimeLt(a, b) == TimeLeq(a, b) /\ a # b

(* ------------------------- _generate_time_slots ----------------------- *)
time_to_minutes(time_str) == time_str[1] * 60 + time_str[2]

minutes_to_time(minutes) == <<minutes \div 60, minutes % 60>>

\* (variant) the lunch window is closed at lunch_end: a step that starts at
\* lunch_end is left out too
RECURSIVE SlotLoopLunchClosed(_, _)
SlotLoopLunchClosed(c, current) ==
  LET end_minutes == time_to_minutes(c.end_time)
      lunch_start_minutes == time_to_minutes(c.lunch_start)
      lunch_end_minutes == time_to_minutes(c.lunch_end)
  IN IF current + c.lecture_duration <= end_minutes
     THEN (IF ~(lunch_start_minutes <= current /\ current <= lunch_end_minutes)
           THEN <<minutes_to_time(current)>> ELSE <<>>)
          \o SlotLoopLunchClosed(c, current + c.lecture_duration)
     ELSE <<>>

RECURSIVE SlotLoop(_, _)
SlotLoop(c, current) ==
  LET end_minutes == time_to_minutes(c.end_time)
      lunch_start_minutes == time_to_minutes(c.lunch_start)
      lunch_end_minutes == time_to_minutes(c.lunch_end)
  IN IF current + c.lecture_duration <= end_minutes
     THEN (IF ~(lunch_start_minutes <= current /\ current < lunch_end_minutes)
           THEN <<minutes_to_time(current)>> ELSE <<>>)
          \o SlotLoop(c, current + c.lecture_duration)
     ELSE <<>>

generate_time_slots(c) == SlotLoop(c, time_to_minutes(c.start_time))

is_lunch_time(c, time_slot) ==
  TimeLeq(c.lunch_start, time_slot) /\ TimeLt(time_slot, c.lunch_end)

SlotIdx == 1..Len(time_slots)

(* --------------------------- create_individual ------------------------ *)
EmptyTimetable == [d \in Days |-> [i \in SlotIdx |-> None]]

RoomOf(course, k) == <<(IF course.type = "lab" THEN "Lab" ELSE "Room"), k>>

ClassInfo(course, k) ==
  [course_code |-> course.code, teacher |-> course.teacher, type |-> course.type,
   room |-> RoomOf(course, k),
   lab_duration |-> IF course.type = "lab" THEN course.lab_duration ELSE 1]

\* the requests of one course: lectures_per_week class_info dicts, each with
\* its own random room; the set of the lists the loop can build
RECURSIVE CourseRequests(_, _)
CourseRequests(course, n) ==
  IF n <= 0 THEN {<<>>}
  ELSE {<<ClassInfo(course, k)>> \o rest :
          k \in 1..NumRooms, rest \in CourseRequests(course, n - 1)}

RECURSIVE AllRequests(_)
AllRequests(cs) ==
  IF cs = <<>> THEN {<<>>}
  ELSE {a \o b : a \in CourseRequests(Head(cs), Head(cs).lectures_per_week),
                 b \in AllRequests(Tail(cs))}

SelectType(reqs, lab) ==
  SelectSeq(reqs, LAMBDA r : (r.type = "lab") = lab)

\* (variant) without the teacher look-ahead across days
can_place_if_free(timetable, day, start_slot_index, lab_duration, course_info) ==
  /\ start_slot_index - 1 + lab_duration <= Len(time_slots)
  /\ \A i \in 0..(lab_duration - 1) :
       LET slot_index == start_slot_index + i IN
         /\ slot_index <= Len(time_slots)
         /\ timetable[day][slot_index] = None

can_place_consecutive_lab(timetable, day, start_slot_index, lab_duration, course_info) ==
  /\ start_slot_index - 1 + lab_duration <= Len(time_slots)
  /\ \A i \in 0..(lab_duration - 1) :
       LET slot_index == start_slot_index + i IN
         /\ slot_index <= Len(time_slots)
         /\ timetable[day][slot_index] = None
         /\ \A other_day \in Days :
              timetable[other_day][slot_index] = None
              \/ timetable[other_day][slot_index].teacher # course_info.teacher

LabPart(course_info, i, lab_duration) ==
  [course_code |-> course_info.course_code, teacher |-> course_info.teacher,
   type |-> course_info.type, room |-> course_info.room,
   lab_duration |-> course_info.lab_duration,
   session_part |-> <<i + 1, lab_duration>>,
   is_consecutive |-> TRUE, total_duration |-> lab_duration]

place_consecutive_lab(timetable, day, start_slot_index, lab_duration, course_info) ==
  [timetable EXCEPT ![day] =
     [s \in SlotIdx |->
        IF s >= start_slot_index /\ s < start_slot_index + lab_duration
        THEN LabPart(course_info, s - start_slot_index, lab_duration)
        ELSE timetable[day][s]]]

\* random.randint(0, len(time_slots) - lab_duration), as a 1-based index
LabStarts(lab_info) == 1..(Len(time_slots) - lab_info.lab_duration + 1)

\* one lab request: placed by some attempt, or all max_attempts draws failed
LabOutcomes(timetable, lab_info) ==
  LET draws == Days \X LabStarts(lab_info)
      good == {c \in draws :
                 can_place_consecutive_lab(timetable, c[1], c[2],
                                           lab_info.lab_duration, lab_info)}
  IN {place_consecutive_lab(timetable, c[1], c[2], lab_info.lab_duration, lab_info) :
        c \in good}
     \cup (IF good # draws THEN {timetable} ELSE {})

LectureSlots == {i \in SlotIdx : ~is_lunch_time(constraints, time_slots[i])}

\* (variant) line 212 left out: the cell is not tested for being free
LectureFitsAnyCell(timetable, day, time_slot, lecture_info) ==
  \A other_day \in Days :
    timetable[other_day][time_slot] = None
    \/ timetable[other_day][time_slot].teacher # lecture_info.teacher

LectureFits(timetable, day, time_slot, lecture_info) ==
  /\ timetable[day][time_slot] = None
  /\ \A other_day \in Days :
       timetable[other_day][time_slot] = None
       \/ timetable[other_day][time_slot].teacher # lecture_info.teacher

LecturePlaced(lecture_info) ==
  [course_code |-> lecture_info.course_code, teacher |-> lecture_info.teacher,
   type |-> lecture_info.type, room |-> lecture_info.room,
   lab_duration |-> lecture_info.lab_duration,
   session_part |-> <<1, 1>>, is_consecutive |-> FALSE, total_duration |-> 1]

LectureOutcomes(timetable, lecture_info) ==
  LET draws == Days \X LectureSlots
      good == {c \in draws : LectureFits(timetable, c[1], c[2], lecture_info)}
  IN {[timetable EXCEPT ![c[1]][c[2]] = LecturePlaced(lecture_info)] : c \in good}
     \cup (IF good # draws THEN {timetable} ELSE {})

RECURSIVE PlaceLabs(_, _)
PlaceLabs(tts, labs) ==
  IF labs = <<>> THEN tts
  ELSE PlaceLabs(UNION {LabOutcomes(t, Head(labs)) : t \in tts}, Tail(labs))

RECURSIVE PlaceLectures(_, _)
PlaceLectures(tts, lectures) ==
  IF lectures = <<>> THEN tts
  ELSE PlaceLectures(UNION {LectureOutcomes(t, Head(lectures)) : t \in tts},
                     Tail(lectures))

\* the draw of line 193 has an empty range, or the choice of line 210 an
\* empty list: the call raises (ValueError, IndexError)
create_individual_raises ==
  \/ \E j \in 1..Len(courses) :
       /\ courses[j].type = "lab" /\ courses[j].lectures_per_week >= 1
       /\ Len(time_slots) - courses[j].lab_duration < 0
  \/ /\ \E j \in 1..Len(courses) :
          courses[j].type # "lab" /\ courses[j].lectures_per_week >= 1
     /\ LectureSlots = {}

\* the timetables create_individual can return
create_individual ==
  UNION {PlaceLectures(PlaceLabs({EmptyTimetable}, SelectType(reqs, TRUE)),
                       SelectType(reqs, FALSE)) : reqs \in AllRequests(courses)}

(* ------------------------------- fitness ------------------------------ *)
Cells == Days \X SlotIdx
Occupied(timetable) == {c \in Cells : timetable[c[1]][c[2]] # None}
At(timetable, c) == timetable[c[1]][c[2]]

\* sorted(self.working_days), sorted(self.time_slots): the cells in key order
RECURSIVE SortedCells(_)
SortedCells(S) ==
  IF S = {} THEN <<>>
  ELSE LET first == CHOOSE c \in S : \A e \in S :
                      \/ AlphaRank(working_days[c[1]]) < AlphaRank(working_days[e[1]])
                      \/ /\ c[1] = e[1]
                         /\ TimeLeq(time_slots[c[2]], time_slots[e[2]])
       IN <<first>> \o SortedCells(S \ {first})

\* items.append(...) for each cell of a list, in the list's order
RECURSIVE HashItems(_, _)
HashItems(timetable, cells) ==
  IF cells = <<>> THEN <<>>
  ELSE LET class_info == At(timetable, Head(cells)) IN
         << <<working_days[Head(cells)[1]], time_slots[Head(cells)[2]],
              class_info.course_code, class_info.teacher, class_info.room>> >>
         \o HashItems(timetable, Tail(cells))

hash_timetable(timetable) == HashItems(timetable, SortedCells(Occupied(timetable)))

\* one day of _check_no_conflicts: the loop over day_schedule.items() from
\* slot i on, with the two per-day dicts built so far
\* (variant) one teacher list and one room dict for all the slots of a day
RECURSIVE NoConflictsDayShared(_, _, _, _)
NoConflictsDayShared(day_schedule, i, teachers_at_time, rooms_at_time) ==
  IF i > Len(day_schedule) THEN 0
  ELSE
    LET class_info == day_schedule[i] IN
    IF class_info = None
    THEN NoConflictsDayShared(day_schedule, i + 1, teachers_at_time, rooms_at_time)
    ELSE
      LET teacher_seen == class_info.teacher \in teachers_at_time[1]
          room_seen == \E e \in rooms_at_time[1] : e.room = class_info.room
          existing_class == CHOOSE e \in rooms_at_time[1] : e.room = class_info.room
          teacher_score == IF teacher_seen THEN -200 ELSE 10
          room_score ==
            IF room_seen
            THEN IF /\ class_info.course_code = existing_class.course_code
                    /\ class_info.type = "lab" /\ existing_class.type = "lab"
                    /\ class_info.is_consecutive /\ existing_class.is_consecutive
                 THEN 5 ELSE -150
            ELSE 5
      IN teacher_score + room_score
         + NoConflictsDayShared(day_schedule, i + 1,
             IF teacher_seen THEN teachers_at_time
             ELSE [teachers_at_time EXCEPT ![1] = @ \cup {class_info.teacher}],
             IF room_seen THEN rooms_at_time
             ELSE [rooms_at_time EXCEPT ![1] = @ \cup {class_info}])

RECURSIVE NoConflictsDay(_, _, _, _)
NoConflictsDay(day_schedule, i, teachers_at_time, rooms_at_time) ==
  IF i > Len(day_schedule) THEN 0
  ELSE
    LET class_info == day_schedule[i] IN
    IF class_info = None
    THEN NoConflictsDay(day_schedule, i + 1, teachers_at_time, rooms_at_time)
    ELSE
      LET teacher_seen == class_info.teacher \in teachers_at_time[i]
          room_seen == \E e \in rooms_at_time[i] : e.room = class_info.room
          existing_class == CHOOSE e \in rooms_at_time[i] : e.room = class_info.room
          teacher_score == IF teacher_seen THEN -200 ELSE 10
          room_score ==
            IF room_seen
            THEN IF /\ class_info.course_code = existing_class.course_code
                    /\ class_info.type = "lab" /\ existing_class.type = "lab"
                    /\ class_info.is_consecutive /\ existing_class.is_consecutive
                 THEN 5 ELSE -150
            ELSE 5
      IN teacher_score + room_score
         + NoConflictsDay(day_schedule, i + 1,
             IF teacher_seen THEN teachers_at_time
             ELSE [teachers_at_time EXCEPT ![i] = @ \cup {class_info.teacher}],
             IF room_seen THEN rooms_at_time
             ELSE [rooms_at_time EXCEPT ![i] = @ \cup {class_info}])

check_no_conflicts(timetable) ==
  SumOver(Days, [d \in Days |->
    NoConflictsDay(timetable[d], 1, [i \in SlotIdx |-> {}], [i \in SlotIdx |-> {}])])

\* the inner loop of _check_consecutive_lab_placement for a first part at slot i
consecutive_valid(day_schedule, i, class_info) ==
  \A j \in 0..(class_info.total_duration - 1) :
    /\ i + j <= Len(time_slots)
    /\ day_schedule[i + j] # None
    /\ day_schedule[i + j].course_code = class_info.course_code
    /\ day_schedule[i + j].teacher = class_info.teacher
    /\ day_schedule[i + j].type = "lab"

LabCellScore(day_schedule, i) ==
  LET class_info == day_schedule[i] IN
  IF class_info = None \/ class_info.type # "lab" THEN 0
  ELSE IF class_info.is_consecutive /\ class_info.total_duration > 1
       THEN IF class_info.session_part = <<1, class_info.total_duration>>
            THEN IF consecutive_valid(day_schedule, i, class_info) THEN 200 ELSE -100
            ELSE 0
       ELSE IF class_info.total_duration > 1 /\ ~class_info.is_consecutive
            THEN -150
            ELSE 10

check_consecutive_lab_placement(timetable) ==
  SumOver(Cells, [c \in Cells |-> LabCellScore(timetable[c[1]], c[2])])

CountWhere(timetable, P(_)) == Cardinality({c \in Occupied(timetable) : P(At(timetable, c))})

\* (variant) a course with more sessions than required counts as complete
CourseCompletionScoreCapped(scheduled, required) ==
  IF scheduled >= required THEN 100 * FitDen
  ELSE (scheduled * 80 * FitDen) \div required

\* in units of 1/FitDen
CourseCompletionScore(scheduled, required) ==
  IF scheduled = required THEN 100 * FitDen
  ELSE IF scheduled > required THEN (50 - (scheduled - required) * 10) * FitDen
  ELSE (scheduled * 80 * FitDen) \div required

check_course_completion(timetable) ==
  SumSeq([j \in 1..Len(courses) |->
    CourseCompletionScore(
      CountWhere(timetable, LAMBDA x : x.course_code = courses[j].code),
      courses[j].lectures_per_week)])

TeachersOf(timetable) == {At(timetable, c).teacher : c \in Occupied(timetable)}
RoomsOf(timetable) == {At(timetable, c).room : c \in Occupied(timetable)}

\* hours <= avg_hours * 1.2 with avg_hours = total / len(teacher_hours)
WithinWorkload(hours, total, n) == hours * n * 5 <= total * 6

check_teacher_workload(timetable) ==
  LET teachers == TeachersOf(timetable)
      total == Cardinality(Occupied(timetable))
  IN SumOver(teachers, [t \in teachers |->
       IF WithinWorkload(CountWhere(timetable, LAMBDA x : x.teacher = t),
                         total, Cardinality(teachers))
       THEN 20 ELSE -10])

\* 0.1 <= usage / total_classes <= 0.4
GoodUtilization(usage, total_classes) ==
  total_classes <= 10 * usage /\ 10 * usage <= 4 * total_classes

check_room_utilization(timetable) ==
  LET rooms == RoomsOf(timetable)
      total_classes == Cardinality(Occupied(timetable))
  IN SumOver(rooms, [r \in rooms |->
       IF GoodUtilization(CountWhere(timetable, LAMBDA x : x.room = r), total_classes)
       THEN 15 ELSE 0])

\* _generate_summary, lines 578-613; courses_completion follows self.courses,
\* completion_rate in units of 1/FitDen
generate_summary(timetable) ==
  [total_classes_scheduled |-> Cardinality(Occupied(timetable)),
   consecutive_lab_sessions |->
     CountWhere(timetable, LAMBDA x : x.type = "lab" /\ x.is_consecutive),
   courses_completion |->
     [j \in 1..Len(courses) |->
        LET count == CountWhere(timetable, LAMBDA x : x.course_code = courses[j].code)
        IN [code |-> courses[j].code,
            scheduled |-> count,
            required |-> courses[j].lectures_per_week,
            completion_rate |->
              (count * 100 * FitDen) \div courses[j].lectures_per_week]],
   teacher_workload |->
     [t \in TeachersOf(timetable) |-> CountWhere(timetable, LAMBDA x : x.teacher = t)],
   room_utilization |->
     [r \in RoomsOf(timetable) |-> CountWhere(timetable, LAMBDA x : x.room = r)]]

\* (variant) the component scores summed without their weights
compute_fitness_unweighted(timetable) ==
  LET fitness ==
        FitDen * (1000
                  + check_no_conflicts(timetable)
                  + check_consecutive_lab_placement(timetable)
                  + check_teacher_workload(timetable)
                  + check_room_utilization(timetable))
        + check_course_completion(timetable)
  IN IF fitness > 0 THEN fitness ELSE 0

\* lines 251-263 of calculate_fitness: the value computed on a cache miss,
\* in units of 1/FitDen
compute_fitness(timetable) ==
  LET fitness ==
        FitDen * (1000
                  + check_no_conflicts(timetable) * 500
                  + check_consecutive_lab_placement(timetable) * 800
                  + check_teacher_workload(timetable) * 300
                  + check_room_utilization(timetable) * 200)
        + check_course_completion(timetable) * 600
  IN IF fitness > 0 THEN fitness ELSE 0

(* ---------------------------- the cache ------------------------------- *)
CacheHas(cache, key) == key \in DOMAIN cache

\* (variant) an insert on a key that is already there adds to the stored
\* value instead of replacing it
CachePutAdding(cache, key, value) ==
  [k \in DOMAIN cache \cup {key} |->
     IF k # key THEN cache[k]
     ELSE IF key \in DOMAIN cache THEN cache[key] + value ELSE value]

CachePut(cache, key, value) ==
  [k \in DOMAIN cache \cup {key} |-> IF k = key THEN value ELSE cache[k]]

\* calculate_fitness run without interruption: <<returned value, cache after>>
calculate_fitness(cache, timetable) ==
  LET timetable_hash == hash_timetable(timetable) IN
    IF CacheHas(cache, timetable_hash)
    THEN <<cache[timetable_hash], cache>>
    ELSE <<compute_fitness(timetable),
           CachePut(cache, timetable_hash, compute_fitness(timetable))>>

(* ------------------- selection, crossover, mutation ------------------- *)
Indices(seq) == 1..Len(seq)

\* random.sample of min(tournament_size, len) indices, then max by fitness
\* (the first maximal index of the sample's random order)
tournament_selection(pop, scores) ==
  LET k == IF tournament_size < Len(pop) THEN tournament_size ELSE Len(pop)
      samples == {S \in SUBSET Indices(pop) : Cardinality(S) = k}
  IN {pop[best_index] : best_index \in
        {i \in Indices(pop) : \E S \in samples :
            i \in S /\ \A j \in S : scores[j] <= scores[i]}}

\* crossover_day_idx is random.randint(0, len(working_days) - 1); day d is
\* enumerate's i = d - 1
\* (variant) the split runs over the time slots of each day
crossover_at_slot(parent1, parent2, crossover_day_idx) ==
  [d \in Days |-> [s \in SlotIdx |->
     IF s - 1 < crossover_day_idx THEN parent1[d][s] ELSE parent2[d][s]]]

crossover_at(parent1, parent2, crossover_day_idx) ==
  [d \in Days |-> [s \in SlotIdx |->
     IF d - 1 < crossover_day_idx THEN parent1[d][s] ELSE parent2[d][s]]]

crossover(parent1, parent2) ==
  {crossover_at(parent1, parent2, idx) : idx \in 0..(NumDays - 1)}

\* (variant) the first cell takes the session of the second, which keeps it
SwapCellsCopying(timetable, c1, c2) ==
  [d \in Days |-> [s \in SlotIdx |->
     IF <<d, s>> = c1 THEN At(timetable, c2)
     ELSE timetable[d][s]]]

SwapCells(timetable, c1, c2) ==
  [d \in Days |-> [s \in SlotIdx |->
     IF <<d, s>> = c1 THEN At(timetable, c2)
     ELSE IF <<d, s>> = c2 THEN At(timetable, c1)
     ELSE timetable[d][s]]]

\* (variant) the is_consecutive test of lines 478-479 left out
MayMutateSwapAny(class1, class2) == TRUE

MayMutateSwap(class1, class2) ==
  /\ (class1 = None \/ ~class1.is_consecutive)
  /\ (class2 = None \/ ~class2.is_consecutive)

\* the timetables _mutate can return
mutate(individual) ==
  {individual}
  \cup {SwapCells(individual, p[1], p[2]) :
          p \in {q \in Occupied(individual) \X Occupied(individual) :
                   /\ q[1] # q[2]
                   /\ MayMutateSwap(At(individual, q[1]), At(individual, q[2]))}}

\* sorted(range(n), key=fitness, reverse=True)[:elite_size]: the sort is
\* stable, so equal scores keep index order
RECURSIVE EliteOrder(_, _)
EliteOrder(S, scores) ==
  IF S = {} THEN <<>>
  ELSE LET i == CHOOSE x \in S : \A y \in S :
                  scores[x] > scores[y] \/ (scores[x] = scores[y] /\ x <= y)
       IN <<i>> \o EliteOrder(S \ {i}, scores)

\* (variant) the sort of line 537 without reverse=True
elite_indices_ascending(scores) ==
  LET order == EliteOrder(Indices(scores), [i \in Indices(scores) |-> 0 - scores[i]])
  IN SubSeq(order, 1, IF elite_size < Len(order) THEN elite_size ELSE Len(order))

elite_indices(scores) ==
  LET order == EliteOrder(Indices(scores), scores)
  IN SubSeq(order, 1, IF elite_size < Len(order) THEN elite_size ELSE Len(order))

\* one pass of the offspring loop, lines 545-556: the child before mutation
\* is a crossover (random() < crossover_rate) or a copy of parent1
offspring(pop, scores) ==
  UNION {crossover(parent1, parent2) \cup {parent1} :
           parent1 \in tournament_selection(pop, scores),
           parent2 \in tournament_selection(pop, scores)}

\* ... and after the mutation that random() < mutation_rate applies
children(pop, scores) ==
  offspring(pop, scores) \cup UNION {mutate(c) : c \in offspring(pop, scores)}

(* ----------------------- _generate_neighbor_solution ------------------ *)
swap_time_slots(solution) ==
  IF Len(time_slots) >= 2
  THEN {SwapCells(solution, <<day, p[1]>>, <<day, p[2]>>) :
          day \in Days, p \in {q \in SlotIdx \X SlotIdx : q[1] # q[2]}}
  ELSE {solution}

MoveCell(timetable, source, target) ==
  [d \in Days |-> [s \in SlotIdx |->
     IF <<d, s>> = source /\ source # target THEN None
     ELSE IF <<d, s>> = target THEN At(timetable, source)
     ELSE timetable[d][s]]]

move_class(solution) ==
  LET all_slots == Occupied(solution)
      empty_slots == Cells \ all_slots
  IN IF all_slots # {} /\ empty_slots # {}
     THEN {MoveCell(solution, source, target) :
             source \in all_slots, target \in empty_slots}
     ELSE {solution}

swap_classes(solution) ==
  LET all_slots == Occupied(solution)
  IN IF Cardinality(all_slots) >= 2
     THEN {SwapCells(solution, p[1], p[2]) :
             p \in {q \in all_slots \X all_slots : q[1] # q[2]}}
     ELSE {solution}

generate_neighbor_solution(solution) ==
  swap_time_slots(solution) \cup move_class(solution) \cup swap_classes(solution)

(* ----------------------------- the inputs ----------------------------- *)
CourseA == [code |-> "CS101", teacher |-> "A", lectures_per_week |-> 2,
            type |-> "lecture", lab_duration |-> 2]
CourseLab(t) == [code |-> "PH1L", teacher |-> t, lectures_per_week |-> 1,
                 type |-> "lab", lab_duration |-> 2]
CourseB == [code |-> "MA102", teacher |-> "B", lectures_per_week |-> 1,
            type |-> "lecture", lab_duration |-> 2]

CourseLists ==
  {<<>>, <<CourseA>>, <<CourseB, CourseLab("A")>>, <<CourseB, CourseLab("B")>>}

ConstraintSets ==
  {c \in [start_time : {<<10, 0>>},
          end_time : {<<10, 0>>, <<13, 0>>},
          lecture_duration : {60, 90},
          lunch_start : {<<11, 0>>, <<11, 30>>, <<12, 30>>},
          lunch_end : {<<12, 0>>}] :
     Len(generate_time_slots(c)) <= MaxSlots}

Algorithms == {"genetic", "simulated_annealing", "hybrid"}

NoSA == [current_solution |-> None, current_fitness |-> 0,
         best_solution |-> None, best_fitness |-> 0, iteration |-> 0,
         neighbor |-> None, neighbor_fitness |-> 0, convergence_history |-> <<>>]

Init ==
  /\ constraints \in ConstraintSets
  /\ courses \in CourseLists
  /\ algorithm \in Algorithms
  /\ pc = "new"
  /\ time_slots = <<>>
  /\ population = <<>>
  /\ fitness_cache = <<>>
  /\ task = <<>>
  /\ fitness_scores = <<>>
  /\ best_fitness = 0
  /\ best_individual = None
  /\ convergence_history = <<>>
  /\ generations_without_improvement = 0
  /\ generation = 0
  /\ new_population = <<>>
  /\ ga_result = None
  /\ result = None
  /\ sa = NoSA
  /\ checked = None
  /\ constraint_set = <<>>
  /\ returned = None

inputs == <<constraints, courses, algorithm>>
checker_vars == <<checked, constraint_set, returned>>
ga_locals == <<best_fitness, best_individual, convergence_history,
               generations_without_improvement, generation>>

Raised == pc \in {"ValueError", "IndexError", "AttributeError"}

\* GeneticTimetableOptimizer.__init__
Construct ==
  /\ pc = "new"
  /\ time_slots' = generate_time_slots(constraints)
  /\ pc' = "create"
  /\ UNCHANGED <<checker_vars, inputs, population, fitness_cache, task, fitness_scores, ga_locals,
                 new_population, ga_result, result, sa>>

Queued(pop) == [i \in Indices(pop) |-> "queued"]
NoScores(pop) == [i \in Indices(pop) |-> 0]

\* optimize, line 493: one create_individual call of the list comprehension
CreateIndividual ==
  /\ pc = "create"
  /\ Len(population) < population_size
  /\ ~create_individual_raises
  /\ \E timetable \in create_individual :
       /\ population' = Append(population, timetable)
       /\ IF Len(population) + 1 = population_size
          THEN /\ pc' = "evaluate"
               /\ task' = Queued(population')
               /\ fitness_scores' = NoScores(population')
          ELSE UNCHANGED <<pc, task, fitness_scores>>
  /\ UNCHANGED <<checker_vars, inputs, time_slots, fitness_cache, ga_locals, new_population,
                 ga_result, result, sa>>

\* line 193 (random.randint over an empty range) or line 210 (random.choice
\* of an empty list) raises in the first create_individual call
CreateIndividualRaises ==
  /\ pc = "create"
  /\ create_individual_raises
  /\ pc' = IF \E j \in 1..Len(courses) :
                /\ courses[j].type = "lab" /\ courses[j].lectures_per_week >= 1
                /\ Len(time_slots) - courses[j].lab_duration < 0
           THEN "ValueError" ELSE "IndexError"
  /\ UNCHANGED <<checker_vars, inputs, time_slots, population, fitness_cache, task, fitness_scores,
                 ga_locals, new_population, ga_result, result, sa>>

Running == {i \in Indices(task) : task[i] \in {"miss", "stored"}}

\* a worker's calculate_fitness(population[i]), lines 247-249
FitnessLookup(i) ==
  /\ pc = "evaluate"
  /\ task[i] = "queued"
  /\ Cardinality(Running) < max_workers
  /\ LET timetable_hash == hash_timetable(population[i]) IN
       IF CacheHas(fitness_cache, timetable_hash)
       THEN /\ fitness_scores' = [fitness_scores EXCEPT ![i] = fitness_cache[timetable_hash]]
            /\ task' = [task EXCEPT ![i] = "done"]
       ELSE /\ task' = [task EXCEPT ![i] = "miss"]
            /\ UNCHANGED fitness_scores
  /\ UNCHANGED <<checker_vars, inputs, pc, time_slots, population, fitness_cache, ga_locals,
                 new_population, ga_result, result, sa>>

\* ... lines 251-263
FitnessStore(i) ==
  /\ pc = "evaluate"
  /\ task[i] = "miss"
  /\ fitness_cache' = CachePut(fitness_cache, hash_timetable(population[i]),
                               compute_fitness(population[i]))
  /\ task' = [task EXCEPT ![i] = "stored"]
  /\ UNCHANGED <<checker_vars, inputs, pc, time_slots, population, fitness_scores, ga_locals,
                 new_population, ga_result, result, sa>>

\* ... line 264
FitnessReturn(i) ==
  /\ pc = "evaluate"
  /\ task[i] = "stored"
  /\ fitness_scores' =
       [fitness_scores EXCEPT ![i] = fitness_cache[hash_timetable(population[i])]]
  /\ task' = [task EXCEPT ![i] = "done"]
  /\ UNCHANGED <<checker_vars, inputs, pc, time_slots, population, fitness_cache, ga_locals,
                 new_population, ga_result, result, sa>>

\* (variant) the index of the best is taken to be the first individual's
IndexZero(scores, value) == 1

\* fitness_scores.index(max_fitness)
FirstIndexOf(scores, value) ==
  CHOOSE i \in Indices(scores) :
    scores[i] = value /\ \A j \in 1..(i - 1) : scores[j] # value

\* (variant) line 515 moved before line 508: the history gets the best score
\* of the generation before
track_best_append_first(max_fitness, best, stale, history) ==
  [improved |-> max_fitness > best,
   best_fitness |-> IF max_fitness > best THEN max_fitness ELSE best,
   generations_without_improvement |-> IF max_fitness > best THEN 0 ELSE stale + 1,
   convergence_history |-> Append(history, best)]

\* (variant) the count is never reset
track_best_no_reset(max_fitness, best, stale, history) ==
  [improved |-> max_fitness > best,
   best_fitness |-> IF max_fitness > best THEN max_fitness ELSE best,
   generations_without_improvement |-> stale + 1,
   convergence_history |->
     Append(history, IF max_fitness > best THEN max_fitness ELSE best)]

\* optimize, lines 508-515
track_best(max_fitness, best, stale, history) ==
  [improved |-> max_fitness > best,
   best_fitness |-> IF max_fitness > best THEN max_fitness ELSE best,
   generations_without_improvement |-> IF max_fitness > best THEN 0 ELSE stale + 1,
   convergence_history |->
     Append(history, IF max_fitness > best THEN max_fitness ELSE best)]

\* optimize, lines 505-531: track the best, then the early-stopping tests
TrackBest ==
  /\ pc = "evaluate"
  /\ \A i \in Indices(task) : task[i] = "done"
  /\ LET max_fitness == Max({fitness_scores[i] : i \in Indices(fitness_scores)})
         max_idx == FirstIndexOf(fitness_scores, max_fitness)
         tracked == track_best(max_fitness, best_fitness,
                               generations_without_improvement, convergence_history)
     IN /\ best_fitness' = tracked.best_fitness
        /\ best_individual' =
             IF tracked.improved THEN population[max_idx] ELSE best_individual
        /\ generations_without_improvement' = tracked.generations_without_improvement
        /\ convergence_history' = tracked.convergence_history
        /\ pc' = IF \/ tracked.best_fitness >= target_fitness * FitDen
                    \/ tracked.generations_without_improvement >= early_stop_generations
                 THEN "ga_done" ELSE "elite"
  /\ UNCHANGED <<checker_vars, inputs, time_slots, population, fitness_cache, task, fitness_scores,
                 generation, new_population, ga_result, result, sa>>

\* line 558 and the loop header: the next generation, or the end of the loop
NextGeneration(pop) ==
  /\ population' = pop
  /\ new_population' = <<>>
  /\ IF generation + 1 < generations
     THEN /\ generation' = generation + 1
          /\ pc' = "evaluate"
          /\ task' = Queued(pop)
          /\ fitness_scores' = NoScores(pop)
     ELSE /\ pc' = "ga_done"
          /\ UNCHANGED <<generation, task, fitness_scores>>

\* optimize, lines 534-541
KeepElite ==
  /\ pc = "elite"
  /\ LET elite == [n \in Indices(elite_indices(fitness_scores)) |->
                     population[elite_indices(fitness_scores)[n]]]
     IN IF Len(elite) < population_size
        THEN /\ new_population' = elite
             /\ pc' = "offspring"
             /\ UNCHANGED <<population, task, fitness_scores, generation>>
        ELSE NextGeneration(elite)
  /\ UNCHANGED <<checker_vars, inputs, time_slots, fitness_cache, best_fitness, best_individual,
                 convergence_history, generations_without_improvement, ga_result,
                 result, sa>>

\* optimize, lines 544-556: one pass of the offspring loop
Offspring ==
  /\ pc = "offspring"
  /\ \E child \in children(population, fitness_scores) :
       IF Len(new_population) + 1 < population_size
       THEN /\ new_population' = Append(new_population, child)
            /\ UNCHANGED <<pc, population, task, fitness_scores, generation>>
       ELSE NextGeneration(Append(new_population, child))
  /\ UNCHANGED <<checker_vars, inputs, time_slots, fitness_cache, best_fitness, best_individual,
                 convergence_history, generations_without_improvement, ga_result,
                 result, sa>>

\* optimize, lines 566-576, and what the caller does with the result:
\* _genetic_algorithm hands it on, the two refinements start from it
GAReturn ==
  /\ pc = "ga_done"
  /\ IF best_individual = None
     THEN /\ pc' = "AttributeError"
          /\ UNCHANGED <<ga_result, result, sa>>
     ELSE /\ ga_result' = [timetable |-> best_individual,
                           fitness_score |-> best_fitness,
                           summary |-> generate_summary(best_individual),
                           generation |-> generation + 1,
                           convergence_history |-> convergence_history]
          /\ IF algorithm = "genetic"
             THEN /\ result' = ga_result'
                  /\ pc' = "returned"
                  /\ UNCHANGED sa
             ELSE /\ sa' = [current_solution |-> best_individual,
                            current_fitness |-> best_fitness,
                            best_solution |-> best_individual,
                            best_fitness |-> best_fitness,
                            iteration |-> IF algorithm = "hybrid"
                                          THEN generation + 1 ELSE 0,
                            neighbor |-> None, neighbor_fitness |-> 0,
                            convergence_history |-> <<best_fitness>>]
                  /\ pc' = "refine"
                  /\ UNCHANGED result
  /\ UNCHANGED <<checker_vars, inputs, time_slots, population, fitness_cache, task, fitness_scores,
                 ga_locals, new_population>>

\* _simulated_annealing, lines 121-159: one pass of the inner loop, and the
\* return after the last one
SimulatedAnnealingStep ==
  /\ pc = "refine"
  /\ algorithm = "simulated_annealing"
  /\ \E neighbor \in generate_neighbor_solution(sa.current_solution) :
       LET call == calculate_fitness(fitness_cache, neighbor)
           neighbor_fitness == call[1]
           better == neighbor_fitness > sa.current_fitness
           record == neighbor_fitness > sa.best_fitness
           after == [sa EXCEPT
                       !.neighbor = neighbor,
                       !.neighbor_fitness = neighbor_fitness,
                       !.current_solution = neighbor,
                       !.current_fitness = neighbor_fitness,
                       !.best_solution = IF record THEN neighbor ELSE @,
                       !.best_fitness = IF record THEN neighbor_fitness ELSE @,
                       !.iteration = @ + 1,
                       !.convergence_history =
                          Append(@, IF record THEN neighbor_fitness ELSE sa.best_fitness)]
       IN /\ fitness_cache' = call[2]
          /\ IF better
             THEN /\ sa' = after
                  /\ IF after.iteration = SATemperatureSteps * SAIterationsPerTemperature
                     THEN /\ result' = [timetable |-> after.best_solution,
                                        fitness_score |-> after.best_fitness,
                                        generation |-> after.iteration,
                                        convergence_history |-> after.convergence_history]
                          /\ pc' = "returned"
                     ELSE UNCHANGED <<pc, result>>
             ELSE \* line 139: the random module has no attribute exp
                  /\ sa' = [sa EXCEPT !.neighbor = neighbor,
                                      !.neighbor_fitness = neighbor_fitness]
                  /\ pc' = "AttributeError"
                  /\ UNCHANGED result
  /\ UNCHANGED <<checker_vars, inputs, time_slots, population, task, fitness_scores, ga_locals,
                 new_population, ga_result>>

\* _hybrid_algorithm, lines 190-222
HybridStep ==
  /\ pc = "refine"
  /\ algorithm = "hybrid"
  /\ \E neighbor \in generate_neighbor_solution(sa.current_solution) :
       LET call == calculate_fitness(fitness_cache, neighbor)
           neighbor_fitness == call[1]
           better == neighbor_fitness > sa.current_fitness
           after == [sa EXCEPT
                       !.neighbor = neighbor,
                       !.neighbor_fitness = neighbor_fitness,
                       !.current_solution = neighbor,
                       !.current_fitness = neighbor_fitness,
                       !.iteration = @ + 1,
                       !.convergence_history = Append(@, neighbor_fitness)]
       IN /\ fitness_cache' = call[2]
          /\ IF better
             THEN /\ sa' = after
                  /\ IF after.iteration - ga_result.generation
                          = HybridTemperatureSteps * HybridIterationsPerTemperature
                     THEN /\ result' = [timetable |-> after.current_solution,
                                        fitness_score |-> after.current_fitness,
                                        generation |-> after.iteration,
                                        convergence_history |-> after.convergence_history]
                          /\ pc' = "returned"
                     ELSE UNCHANGED <<pc, result>>
             ELSE \* line 200: the random module has no attribute exp
                  /\ sa' = [sa EXCEPT !.neighbor = neighbor,
                                      !.neighbor_fitness = neighbor_fitness]
                  /\ pc' = "AttributeError"
                  /\ UNCHANGED result
  /\ UNCHANGED <<checker_vars, inputs, time_slots, population, task, fitness_scores, ga_locals,
                 new_population, ga_result>>

Next ==
  \/ Construct
  \/ CreateIndividual
  \/ CreateIndividualRaises
  \/ \E i \in Indices(population) : FitnessLookup(i)
  \/ \E i \in Indices(population) : FitnessStore(i)
  \/ \E i \in Indices(population) : FitnessReturn(i)
  \/ TrackBest
  \/ KeepElite
  \/ Offspring
  \/ GAReturn
  \/ SimulatedAnnealingStep
  \/ HybridStep

Spec == Init /\ [][Next]_vars

(* ========================= ConstraintsChecker ========================= *)
(* backend/app/utils/constraints_checker.py.  The timetable it is given is *)
(* keyed by day name (working_days[d]) and slot string (time_slots[i]).    *)
(* A well-formed "HH:MM" is the pair <<HH, MM>>; a string that does not    *)
(* split into two integers is a one-element tuple holding the text.  A     *)
(* violation message is the tuple of its fixed text and the values put     *)
(* into it.  A description is the list of its lower-case words, a number   *)
(* being one word; the descriptions used here have no word that contains   *)
(* one of the searched phrases inside it.                                  *)

violation_weights_flat ==
  [teacher_availability |-> 1, room_availability |-> 1, time_restriction |-> 1,
   workload_limit |-> 1, lunch_break |-> 1, consecutive_classes |-> 1, custom |-> 1]

\* __init__, lines 18-26
violation_weights ==
  [teacher_availability |-> 10, room_availability |-> 8, time_restriction |-> 6,
   workload_limit |-> 7, lunch_break |-> 5, consecutive_classes |-> 4, custom |-> 3]

RECURSIVE ConcatSeq(_)
ConcatSeq(ss) == IF ss = <<>> THEN <<>> ELSE Head(ss) \o ConcatSeq(Tail(ss))

\* the messages the body adds for each item of a list, in the list's order
ForEach(n, body(_)) == ConcatSeq([k \in 1..n |-> body(k)])

InList(x, list) == \E k \in 1..Len(list) : list[k] = x

\* str.lower() on the names in use
Lower(name) ==
  CASE name = "A" -> "a"
    [] name = "B" -> "b"
    [] OTHER -> name

\* day_schedule.get(time_slot): the slot's index, 0 when the key is absent
SlotOf(time_slot) ==
  IF \E i \in SlotIdx : time_slots[i] = time_slot
  THEN CHOOSE i \in SlotIdx : time_slots[i] = time_slot
  ELSE 0

\* the number of classes of a day that satisfy a test
DayCount(day_schedule, Test(_)) ==
  Cardinality({i \in SlotIdx : day_schedule[i] # None /\ Test(day_schedule[i])})

\* _time_to_minutes, lines 399-405: 0 for a string that does not parse
checker_time_to_minutes(time_str) ==
  IF Len(time_str) = 2 THEN time_str[1] * 60 + time_str[2] ELSE 0

\* lines 68-104
check_teacher_availability(tt, constraint) ==
  LET teacher_name == Lower(constraint.teacher_name)
      Mine(class_info) == Lower(class_info.teacher) = teacher_name
      OnDay(d) ==
        (IF InList(working_days[d], constraint.unavailable_days)
         THEN ForEach(Len(time_slots), LAMBDA i :
                IF tt[d][i] # None /\ Mine(tt[d][i])
                THEN <<<<"Teacher scheduled on unavailable day",
                         constraint.teacher_name, working_days[d], time_slots[i]>>>>
                ELSE <<>>)
         ELSE <<>>)
        \o ForEach(Len(constraint.unavailable_times), LAMBDA k :
             LET i == SlotOf(constraint.unavailable_times[k]) IN
               IF i # 0 /\ tt[d][i] # None /\ Mine(tt[d][i])
               THEN <<<<"Teacher scheduled at unavailable time",
                        constraint.teacher_name, working_days[d],
                        constraint.unavailable_times[k]>>>>
               ELSE <<>>)
        \o (IF constraint.max_hours_per_day # 0   \* None is written 0: both are falsy
               /\ DayCount(tt[d], Mine) > constraint.max_hours_per_day
            THEN <<<<"Teacher exceeds daily limit", constraint.teacher_name,
                     working_days[d], DayCount(tt[d], Mine),
                     constraint.max_hours_per_day>>>>
            ELSE <<>>)
  IN ForEach(NumDays, OnDay)

\* lines 106-130
check_room_availability(tt, constraint) ==
  LET room_name == constraint.room_name
      OnDay(d) ==
        (IF InList(working_days[d], constraint.unavailable_days)
         THEN ForEach(Len(time_slots), LAMBDA i :
                IF tt[d][i] # None /\ tt[d][i].room = room_name
                THEN <<<<"Room scheduled on unavailable day", room_name,
                         working_days[d], time_slots[i]>>>>
                ELSE <<>>)
         ELSE <<>>)
        \o ForEach(Len(constraint.unavailable_times), LAMBDA k :
             LET i == SlotOf(constraint.unavailable_times[k]) IN
               IF i # 0 /\ tt[d][i] # None /\ tt[d][i].room = room_name
               THEN <<<<"Room scheduled at unavailable time", room_name,
                        working_days[d], constraint.unavailable_times[k]>>>>
               ELSE <<>>)
  IN ForEach(NumDays, OnDay)

\* lines 132-156
check_time_restriction(tt, constraint) ==
  LET course_code == constraint.course_code
      OnDay(d) ==
        (IF InList(working_days[d], constraint.restricted_days)
         THEN ForEach(Len(time_slots), LAMBDA i :
                IF tt[d][i] # None /\ tt[d][i].course_code = course_code
                THEN <<<<"Course scheduled on restricted day", course_code,
                         working_days[d], time_slots[i]>>>>
                ELSE <<>>)
         ELSE <<>>)
        \o ForEach(Len(constraint.restricted_times), LAMBDA k :
             LET i == SlotOf(constraint.restricted_times[k]) IN
               IF i # 0 /\ tt[d][i] # None /\ tt[d][i].course_code = course_code
               THEN <<<<"Course scheduled at restricted time", course_code,
                        working_days[d], constraint.restricted_times[k]>>>>
               ELSE <<>>)
  IN ForEach(NumDays, OnDay)

\* lines 158-193
check_workload_limit(tt, constraint) ==
  LET teacher_name == Lower(constraint.teacher_name)
      Mine(class_info) == teacher_name = "*" \/ Lower(class_info.teacher) = teacher_name
      weekly_classes == SumSeq([d \in Days |-> DayCount(tt[d], Mine)])
  IN ForEach(NumDays, LAMBDA d :
       IF DayCount(tt[d], Mine) > constraint.max_classes_per_day
       THEN <<<<"Teacher exceeds daily limit", constraint.teacher_name,
                working_days[d], DayCount(tt[d], Mine),
                constraint.max_classes_per_day>>>>
       ELSE <<>>)
     \o (IF weekly_classes > constraint.max_classes_per_week
         THEN <<<<"Teacher exceeds weekly limit", constraint.teacher_name,
                  weekly_classes, constraint.max_classes_per_week>>>>
         ELSE <<>>)

\* lines 195-222
check_lunch_break(tt, constraint) ==
  LET lunch_start == checker_time_to_minutes(constraint.start_time)
      lunch_end == checker_time_to_minutes(constraint.end_time)
  IN ForEach(NumDays, LAMBDA d : ForEach(Len(time_slots), LAMBDA i :
       LET slot_start == checker_time_to_minutes(time_slots[i]) IN
         IF /\ tt[d][i] # None
            /\ lunch_start <= slot_start /\ slot_start < lunch_end
            /\ ~InList(<<tt[d][i].teacher>>, constraint.exceptions)
            /\ ~InList(tt[d][i].room, constraint.exceptions)
         THEN <<<<"Class scheduled during lunch break", working_days[d],
                  time_slots[i], tt[d][i].course_code>>>>
         ELSE <<>>))

\* expected_gap, line 245
expected_gap == 45

\* lines 224-261
check_consecutive_classes(tt, constraint) ==
  LET course_code == constraint.course_code
      OnDay(d) ==
        LET course_slots ==
              SelectSeq([i \in SlotIdx |-> IF tt[d][i] # None
                                              /\ tt[d][i].course_code = course_code
                                           THEN checker_time_to_minutes(time_slots[i])
                                           ELSE -1],
                        LAMBDA m : m >= 0)
        IN ForEach(Len(course_slots) - 1, LAMBDA k :
             LET gap == course_slots[k + 1] - course_slots[k]
                 max_allowed_gap == constraint.max_gap_between_classes * expected_gap
             IN IF constraint.must_be_consecutive
                THEN (IF gap # expected_gap
                      THEN <<<<"Course classes not consecutive", course_code,
                               working_days[d], gap>>>>
                      ELSE <<>>)
                ELSE (IF gap > max_allowed_gap
                      THEN <<<<"Course classes have excessive gap", course_code,
                               working_days[d], gap, max_allowed_gap>>>>
                      ELSE <<>>))
  IN ForEach(NumDays, OnDay)

(* ------------------------- custom constraints ------------------------- *)
\* "phrase" in rule
HasPhrase(words, phrase) ==
  \E k \in 1..(Len(words) - Len(phrase) + 1) :
    SubSeq(words, k, k + Len(phrase) - 1) = phrase

\* int() of the digit strings in use
NumberWords == ("1" :> 1) @@ ("2" :> 2) @@ ("11" :> 11) @@ ("12" :> 12)

\* re.search(r'<before>\s*(\d+)\s*<after>'): the number of the first match,
\* -1 when there is none
NumberBefore(words, after) ==
  LET hits == {k \in 1..(Len(words) - 1) :
                 words[k] \in DOMAIN NumberWords /\ words[k + 1] = after}
  IN IF hits = {} THEN -1
     ELSE NumberWords[words[CHOOSE k \in hits : \A j \in hits : k <= j]]

NumberAfter(words, before) ==
  LET hits == {k \in 1..(Len(words) - 1) :
                 words[k] = before /\ words[k + 1] \in DOMAIN NumberWords}
  IN IF hits = {} THEN -1
     ELSE NumberWords[words[1 + CHOOSE k \in hits : \A j \in hits : k <= j]]

\* day_patterns, lines 305-308 and 378-381, in the dict's order
day_patterns ==
  << <<"monday", "Monday">>, <<"tuesday", "Tuesday">>, <<"wednesday", "Wednesday">>,
     <<"thursday", "Thursday">>, <<"friday", "Friday">>, <<"saturday", "Saturday">>,
     <<"sunday", "Sunday">> >>

\* the days named in a rule, in the order of day_patterns
DaysNamed(words) ==
  LET named == SelectSeq(day_patterns, LAMBDA p : InList(p[1], words))
  IN [k \in 1..Len(named) |-> named[k][2]]

\* day in timetable: the day's index, 0 when it is no key
DayOf(day) ==
  IF \E d \in Days : working_days[d] = day
  THEN CHOOSE d \in Days : working_days[d] = day
  ELSE 0

\* lines 288-329
check_time_limit_pattern(tt, rule) ==
  LET found == NumberBefore(rule, "pm")
      hour_limit == IF found < 12 THEN found + 12 ELSE found
      limit_minutes == hour_limit * 60
      days_to_check == IF DaysNamed(rule) = <<>> THEN working_days ELSE DaysNamed(rule)
  IN IF found < 0 THEN <<>>
     ELSE ForEach(Len(days_to_check), LAMBDA k :
            LET d == DayOf(days_to_check[k]) IN
              IF d = 0 THEN <<>>
              ELSE ForEach(Len(time_slots), LAMBDA i :
                     IF tt[d][i] # None
                        /\ checker_time_to_minutes(time_slots[i]) >= limit_minutes
                     THEN <<<<"Class scheduled after PM",
                              IF hour_limit > 12 THEN hour_limit - 12 ELSE hour_limit,
                              working_days[d], tt[d][i].course_code, time_slots[i]>>>>
                     ELSE <<>>))

\* lines 331-349
check_daily_limit_pattern(tt, rule) ==
  LET max_classes == NumberAfter(rule, "maximum")
      AnyClass(class_info) == TRUE
  IN IF max_classes < 0 THEN <<>>
     ELSE ForEach(NumDays, LAMBDA d :
            IF DayCount(tt[d], AnyClass) > max_classes
            THEN <<<<"Too many classes", working_days[d], DayCount(tt[d], AnyClass),
                     max_classes>>>>
            ELSE <<>>)

titles == {"dr.", "prof.", "mr.", "mrs.", "ms."}

\* the words of a teacher's name, lower case
TeacherWords(teacher) == <<Lower(teacher)>>

\* lines 351-397
check_availability_pattern(tt, rule) ==
  LET starts == {i \in 1..(Len(rule) - 1) : rule[i] = "not" /\ rule[i + 1] = "available"}
      \* 1-based; the code's not_available_index is this less one
      not_available == IF starts = {} THEN 0
                       ELSE CHOOSE i \in starts : \A j \in starts : i <= j
      named == {i \in 1..(not_available - 2) : rule[i] \in titles}
      teacher_name == IF named = {} THEN <<>>
                      ELSE LET i == CHOOSE x \in named : \A y \in named : x <= y
                           IN <<rule[i], rule[i + 1]>>
      unavailable_day == IF DaysNamed(rule) = <<>> THEN "" ELSE DaysNamed(rule)[1]
      d == DayOf(unavailable_day)
  IN IF teacher_name # <<>> /\ unavailable_day # "" /\ d # 0
     THEN ForEach(Len(time_slots), LAMBDA i :
            IF tt[d][i] # None /\ HasPhrase(TeacherWords(tt[d][i].teacher), teacher_name)
            THEN <<<<"Teacher scheduled on unavailable day", teacher_name,
                     unavailable_day, time_slots[i]>>>>
            ELSE <<>>)
     ELSE <<>>

\* lines 263-286
check_custom_constraint(tt, constraint) ==
  LET rule == constraint.description IN
    IF HasPhrase(rule, <<"no", "classes", "after">>) /\ InList("pm", rule)
    THEN check_time_limit_pattern(tt, rule)
    ELSE IF InList("maximum", rule) /\ HasPhrase(rule, <<"classes", "per", "day">>)
    THEN check_daily_limit_pattern(tt, rule)
    ELSE IF HasPhrase(rule, <<"not", "available">>)
    THEN check_availability_pattern(tt, rule)
    ELSE <<>>

(* --------------------------- the public methods ----------------------- *)
\* the attribute each checker method reads first; a constraint built as a
\* plain Constraint has none of its type's attributes
FirstAttribute ==
  [teacher_availability |-> "teacher_name", room_availability |-> "room_name",
   time_restriction |-> "course_code", workload_limit |-> "teacher_name",
   lunch_break |-> "start_time", consecutive_classes |-> "course_code",
   custom |-> "description"]

\* the checker method raises (AttributeError), lines 60-64
checker_method_raises(constraint) ==
  FirstAttribute[constraint.type] \notin DOMAIN constraint

\* lines 48-61: the method of the constraint's type
checker_method(tt, constraint) ==
  CASE constraint.type = "teacher_availability" -> check_teacher_availability(tt, constraint)
    [] constraint.type = "room_availability" -> check_room_availability(tt, constraint)
    [] constraint.type = "time_restriction" -> check_time_restriction(tt, constraint)
    [] constraint.type = "workload_limit" -> check_workload_limit(tt, constraint)
    [] constraint.type = "lunch_break" -> check_lunch_break(tt, constraint)
    [] constraint.type = "consecutive_classes" -> check_consecutive_classes(tt, constraint)
    [] constraint.type = "custom" -> check_custom_constraint(tt, constraint)

\* check_constraint, lines 43-66
check_constraint(tt, constraint) ==
  IF checker_method_raises(constraint)
  THEN <<<<"Error checking constraint", constraint.description>>>>
  ELSE checker_method(tt, constraint)

\* check_all_constraints, lines 28-41
check_all_constraints(tt, cs) ==
  ForEach(Len(cs), LAMBDA k :
    IF ~cs[k].is_active THEN <<>> ELSE check_constraint(tt, cs[k]))

\* calculate_constraint_score, lines 407-428: the float as the fraction
\* num / den
calculate_constraint_score(tt, cs) ==
  LET weight(k) == violation_weights[cs[k].type]
      total_weight == SumSeq([k \in 1..Len(cs) |->
                        IF cs[k].is_active THEN weight(k) ELSE 0])
      satisfied_weight == SumSeq([k \in 1..Len(cs) |->
                            IF cs[k].is_active /\ check_constraint(tt, cs[k]) = <<>>
                            THEN weight(k) ELSE 0])
  IN IF total_weight = 0 THEN [num |-> 100, den |-> 1]
     ELSE [num |-> satisfied_weight * 100, den |-> total_weight]

\* _generate_constraint_recommendations, lines 482-503
generate_constraint_recommendations(violation_summary, overall_score) ==
  (IF violation_summary["teacher_availability"] > 0
   THEN <<"Review teacher availability constraints">> ELSE <<>>)
  \o (IF violation_summary["workload_limit"] > 0
      THEN <<"Consider adjusting workload limits">> ELSE <<>>)
  \o (IF violation_summary["time_restriction"] > 0
      THEN <<"Time restrictions may conflict">> ELSE <<>>)
  \o (IF violation_summary["lunch_break"] > 0
      THEN <<"Lunch break timing may need adjustment">> ELSE <<>>)
  \o (IF overall_score.num < 50 * overall_score.den
      THEN <<"Consider relaxing some constraints">> ELSE <<>>)

\* get_constraint_report, lines 430-480
get_constraint_report(tt, cs) ==
  LET active == SelectSeq(cs, LAMBDA c : c.is_active)
      details == [k \in 1..Len(active) |->
                    [id |-> active[k].id, type |-> active[k].type,
                     priority |-> active[k].priority,
                     description |-> active[k].description,
                     satisfied |-> check_constraint(tt, active[k]) = <<>>,
                     violations |-> check_constraint(tt, active[k])]]
      violated == SelectSeq(details, LAMBDA x : ~x.satisfied)
      violation_summary ==
        [t \in DOMAIN violation_weights |->
           SumSeq([k \in 1..Len(violated) |->
                     IF violated[k].type = t THEN Len(violated[k].violations) ELSE 0])]
      overall_score == calculate_constraint_score(tt, cs)
  IN [overall_score |-> overall_score,
      total_constraints |-> Len(cs),
      satisfied_constraints |-> Len(details) - Len(violated),
      violated_constraints |-> Len(violated),
      constraint_details |-> details,
      violation_summary |-> violation_summary,
      recommendations |->
        IF Len(violated) > 0
        THEN generate_constraint_recommendations(violation_summary, overall_score)
        ELSE <<>>]

(* ------------------- the checker called on its own -------------------- *)
\* Constraint's own fields, models/constraints.py lines 20-26
BaseConstraint(id, type, description) ==
  [id |-> id, type |-> type, priority |-> "medium", description |-> description,
   is_active |-> TRUE]

TeacherUnavailable ==
  BaseConstraint("c1", "teacher_availability", "Teacher A is away on Monday")
    @@ [teacher_name |-> "A", unavailable_days |-> <<"Monday">>,
        unavailable_times |-> << <<12, 0>> >>, max_hours_per_day |-> 1]
RoomUnavailable ==
  BaseConstraint("c2", "room_availability", "Room 1 is closed on Tuesday")
    @@ [room_name |-> <<"Room", 1>>, unavailable_days |-> <<"Tuesday">>,
        unavailable_times |-> <<>>]
TimeRestricted ==
  BaseConstraint("c3", "time_restriction", "MA102 is not taught at 10:00")
    @@ [course_code |-> "MA102", restricted_days |-> <<>>,
        restricted_times |-> << <<10, 0>> >>]
WorkloadLimited ==
  BaseConstraint("c4", "workload_limit", "One class a day for everyone")
    @@ [teacher_name |-> "*", max_classes_per_day |-> 1, max_classes_per_week |-> 2]
LunchBreak ==
  BaseConstraint("c5", "lunch_break", "Lunch from 12:00 to 13:00")
    @@ [start_time |-> <<12, 0>>, end_time |-> <<13, 0>>, exceptions |-> <<>>]
\* end_time = "1pm"
LunchBreakBadEnd ==
  BaseConstraint("c6", "lunch_break", "Lunch from 12:00 to 1pm")
    @@ [start_time |-> <<12, 0>>, end_time |-> <<"1pm">>, exceptions |-> <<>>]
\* start_time = "noon"
LunchBreakBadStart ==
  BaseConstraint("c7", "lunch_break", "Lunch from noon to 13:00")
    @@ [start_time |-> <<"noon">>, end_time |-> <<13, 0>>, exceptions |-> <<>>]
LunchBreakExcept ==
  BaseConstraint("c8", "lunch_break", "Lunch from 12:00, teacher B excepted")
    @@ [start_time |-> <<12, 0>>, end_time |-> <<13, 0>>, exceptions |-> << <<"B">> >>]
Consecutive ==
  BaseConstraint("c9", "consecutive_classes", "PH1L classes follow each other")
    @@ [course_code |-> "PH1L", must_be_consecutive |-> TRUE,
        max_gap_between_classes |-> 1]
CustomDailyLimit ==
  BaseConstraint("c10", "custom", <<"maximum", "1", "classes", "per", "day">>)
CustomTimeLimit ==
  BaseConstraint("c11", "custom",
                 <<"no", "classes", "after", "12", "pm", "on", "monday">>)
CustomNotAvailable ==
  BaseConstraint("c12", "custom",
                 <<"dr.", "a", "not", "available", "on", "monday">>)
\* Constraint(type=ConstraintType.LUNCH_BREAK, description=...): no start_time
PlainLunchBreak == BaseConstraint("c13", "lunch_break", "Keep the lunch hour free")
Inactive == [TeacherUnavailable EXCEPT !.id = "c14", !.is_active = FALSE]

ConstraintPool ==
  {TeacherUnavailable, RoomUnavailable, TimeRestricted, WorkloadLimited, LunchBreak,
   LunchBreakBadEnd, LunchBreakBadStart, LunchBreakExcept, Consecutive,
   CustomDailyLimit, CustomTimeLimit, CustomNotAvailable, PlainLunchBreak, Inactive}

MaxConstraints == 2

\* ConstraintSet.constraints
ConstraintLists ==
  UNION {[1..n -> ConstraintPool] : n \in 0..MaxConstraints}

\* the day the checked timetables were generated for: 10:00 and 12:00
CheckedGrid ==
  [start_time |-> <<10, 0>>, end_time |-> <<13, 0>>, lecture_duration |-> 60,
   lunch_start |-> <<11, 0>>, lunch_end |-> <<12, 0>>]

CheckerInit ==
  /\ constraints = CheckedGrid
  /\ courses \in CourseLists \ {<<>>}
  /\ algorithm = "genetic"
  /\ pc = "checker"
  /\ time_slots = generate_time_slots(constraints)
  /\ population = <<>>
  /\ fitness_cache = <<>>
  /\ task = <<>>
  /\ fitness_scores = <<>>
  /\ best_fitness = 0
  /\ best_individual = None
  /\ convergence_history = <<>>
  /\ generations_without_improvement = 0
  /\ generation = 0
  /\ new_population = <<>>
  /\ ga_result = None
  /\ result = None
  /\ sa = NoSA
  /\ checked \in create_individual
  /\ constraint_set \in ConstraintLists
  /\ returned = None

optimizer_vars ==
  <<constraints, courses, algorithm, pc, time_slots, population, fitness_cache,
    task, fitness_scores, best_fitness, best_individual, convergence_history,
    generations_without_improvement, generation, new_population, ga_result,
    result, sa>>

CheckAllConstraintsClearing ==
  /\ pc = "checker"
  /\ returned' = [op |-> "check_all_constraints",
                  value |-> check_all_constraints(checked, constraint_set)]
  /\ checked' = EmptyTimetable
  /\ UNCHANGED <<constraint_set, optimizer_vars>>

\* a call of check_all_constraints
CheckAllConstraints ==
  /\ pc = "checker"
  /\ returned' = [op |-> "check_all_constraints",
                  value |-> check_all_constraints(checked, constraint_set)]
  /\ UNCHANGED <<checked, constraint_set, optimizer_vars>>

\* a call of check_constraint on one constraint of the set
CheckConstraint ==
  /\ pc = "checker"
  /\ \E k \in 1..Len(constraint_set) :
       returned' = [op |-> "check_constraint", constraint |-> k,
                    value |-> check_constraint(checked, constraint_set[k])]
  /\ UNCHANGED <<checked, constraint_set, optimizer_vars>>

\* a call of calculate_constraint_score
CalculateConstraintScore ==
  /\ pc = "checker"
  /\ returned' = [op |-> "calculate_constraint_score",
                  value |-> calculate_constraint_score(checked, constraint_set)]
  /\ UNCHANGED <<checked, constraint_set, optimizer_vars>>

\* a call of get_constraint_report
GetConstraintReport ==
  /\ pc = "checker"
  /\ returned' = [op |-> "get_constraint_report",
                  value |-> get_constraint_report(checked, constraint_set)]
  /\ UNCHANGED <<checked, constraint_set, optimizer_vars>>

CheckerNext ==
  \/ CheckAllConstraints
  \/ CheckConstraint
  \/ CalculateConstraintScore
  \/ GetConstraintReport

CheckerSpec == CheckerInit /\ [][CheckerNext]_vars

(* ============ the optimizer's methods called on their own ============== *)
(* _crossover, _mutate, _check_course_completion and _generate_summary are  *)
(* functions of the timetables handed to them.  They are applied here to    *)
(* the individuals create_individual produces and to each other's results.  *)
(* (In optimize the target_fitness test of line 525 ends the loop before    *)
(* the evolution step whenever an individual holds a session, so there the  *)
(* step only ever meets empty timetables.  Every timetable optimize hands   *)
(* to these methods is among the ones drawn here.)                          *)

CourseD == [code |-> "EE103", teacher |-> "B", lectures_per_week |-> 3,
            type |-> "lecture", lab_duration |-> 2]

MethodCourseLists ==
  {<<>>, <<CourseD>>, <<CourseD, CourseLab("A")>>, <<CourseB, CourseLab("A")>>}

MethodInit ==
  /\ constraints = CheckedGrid
  /\ courses \in MethodCourseLists
  /\ algorithm = "genetic"
  /\ pc = "method"
  /\ time_slots = generate_time_slots(constraints)
  /\ population \in {<<parent1, parent2>> :
                       parent1 \in create_individual, parent2 \in create_individual}
  /\ fitness_cache = <<>>
  /\ task = <<>>
  /\ fitness_scores = <<>>
  /\ best_fitness = 0
  /\ best_individual = None
  /\ convergence_history = <<>>
  /\ generations_without_improvement = 0
  /\ generation = 0
  /\ new_population = <<>>
  /\ ga_result = None
  /\ result = None
  /\ sa = NoSA
  /\ checked = None
  /\ constraint_set = <<>>
  /\ returned = None

\* the timetables at hand: the individuals and the last child returned
Operands ==
  {population[i] : i \in Indices(population)}
  \cup (IF returned # None /\ returned.op \in {"_crossover", "_mutate"}
        THEN {returned.value} ELSE {})

\* a call of _crossover
Crossover ==
  /\ pc = "method"
  /\ \E parent1 \in Operands, parent2 \in Operands :
       \E child \in crossover(parent1, parent2) :
         returned' = [op |-> "_crossover", parent1 |-> parent1, parent2 |-> parent2,
                      value |-> child]
  /\ UNCHANGED <<checked, constraint_set, optimizer_vars>>

\* a call of _mutate
Mutate ==
  /\ pc = "method"
  /\ \E individual \in Operands :
       \E mutated \in mutate(individual) :
         returned' = [op |-> "_mutate", individual |-> individual, value |-> mutated]
  /\ UNCHANGED <<checked, constraint_set, optimizer_vars>>

\* a call of _check_course_completion
CheckCourseCompletion ==
  /\ pc = "method"
  /\ \E timetable \in Operands :
       returned' = [op |-> "_check_course_completion", timetable |-> timetable,
                    value |-> check_course_completion(timetable)]
  /\ UNCHANGED <<checked, constraint_set, optimizer_vars>>

\* a call of _generate_summary
GenerateSummary ==
  /\ pc = "method"
  /\ \E timetable \in Operands :
       returned' = [op |-> "_generate_summary", timetable |-> timetable,
                    value |-> generate_summary(timetable)]
  /\ UNCHANGED <<checked, constraint_set, optimizer_vars>>

MethodNext ==
  \/ Crossover
  \/ Mutate
  \/ CheckCourseCompletion
  \/ GenerateSummary

MethodSpec == MethodInit /\ [][MethodNext]_vars

(* ------------------- one evolution step of optimize ------------------- *)
\* self.fitness_cache after the individuals of a population were evaluated
RECURSIVE CacheOf(_)
CacheOf(pop) ==
  IF pop = <<>> THEN <<>>
  ELSE (hash_timetable(Head(pop)) :> compute_fitness(Head(pop))) @@ CacheOf(Tail(pop))

\* fitness_scores after them
RECURSIVE ScoresOf(_)
ScoresOf(pop) ==
  IF pop = <<>> THEN <<>>
  ELSE <<compute_fitness(Head(pop))>> \o ScoresOf(Tail(pop))

\* line 493: the populations of n individuals
RECURSIVE Populations(_)
Populations(n) ==
  IF n = 0 THEN {<<>>}
  ELSE {Append(pop, timetable) : pop \in Populations(n - 1),
                                 timetable \in create_individual}

\* optimize at line 533 of its first generation: a population has been
\* evaluated and tracked, and the evolution step is about to run
GenerationInit ==
  /\ constraints = CheckedGrid
  /\ courses \in MethodCourseLists
  /\ algorithm = "genetic"
  /\ pc = "elite"
  /\ time_slots = generate_time_slots(constraints)
  /\ population \in Populations(population_size)
  /\ fitness_cache = CacheOf(population)
  /\ task = [i \in Indices(population) |-> "done"]
  /\ fitness_scores = ScoresOf(population)
  /\ best_fitness = Max({fitness_scores[i] : i \in Indices(population)})
  /\ best_individual = population[FirstIndexOf(fitness_scores, best_fitness)]
  /\ convergence_history = <<best_fitness>>
  /\ generations_without_improvement = 0
  /\ generation = 0
  /\ new_population = <<>>
  /\ ga_result = None
  /\ result = None
  /\ sa = NoSA
  /\ checked = None
  /\ constraint_set = <<>>
  /\ returned = None

GenerationNext ==
  \/ KeepElite
  \/ Offspring
  \/ \E i \in Indices(task) : FitnessLookup(i)
  \/ \E i \in Indices(task) : FitnessStore(i)
  \/ \E i \in Indices(task) : FitnessReturn(i)
  \/ TrackBest
  \/ GAReturn

GenerationSpec == GenerationInit /\ [][GenerationNext]_vars

(* ==================== the initializer on its own ======================= *)
(* __init__ and the create_individual calls of optimize's line 493, for     *)
(* grids of up to three slots and course lists that make every branch of    *)
(* the two placement loops happen.                                          *)

InitializerInit ==
  /\ constraints \in
       {CheckedGrid,
        \* 10:00, 11:00 and 12:00, lunch after the last slot
        [CheckedGrid EXCEPT !.lunch_start = <<13, 0>>, !.lunch_end = <<14, 0>>],
        \* the one slot 10:00
        [CheckedGrid EXCEPT !.lecture_duration = 90],
        \* no slot at all
        [CheckedGrid EXCEPT !.end_time = <<10, 0>>]}
  /\ courses \in
       {<<CourseA>>, <<CourseB, CourseLab("A")>>, <<CourseA, CourseLab("A")>>,
        \* a lab course with two lab sessions a week
        <<[CourseLab("A") EXCEPT !.code = "CH2L", !.lectures_per_week = 2]>>}
  /\ algorithm = "genetic"
  /\ pc = "new"
  /\ time_slots = <<>>
  /\ population = <<>>
  /\ fitness_cache = <<>>
  /\ task = <<>>
  /\ fitness_scores = <<>>
  /\ best_fitness = 0
  /\ best_individual = None
  /\ convergence_history = <<>>
  /\ generations_without_improvement = 0
  /\ generation = 0
  /\ new_population = <<>>
  /\ ga_result = None
  /\ result = None
  /\ sa = NoSA
  /\ checked = None
  /\ constraint_set = <<>>
  /\ returned = None

InitializerNext ==
  \/ Construct
  \/ CreateIndividual
  \/ CreateIndividualRaises

InitializerSpec == InitializerInit /\ [][InitializerNext]_vars

(* ============== the methods that take any timetable ==================== *)
(* _check_no_conflicts, _check_teacher_workload and _mutate applied to any *)
(* timetable of the day -> slot -> optional session encoding.              *)

FitnessInit ==
  /\ constraints = CheckedGrid
  /\ courses = <<CourseA, CourseB, CourseLab("A")>>
  /\ algorithm = "genetic"
  /\ pc = "fitness"
  /\ time_slots = generate_time_slots(CheckedGrid)
  /\ population = <<>>
  /\ fitness_cache = <<>>
  /\ task = <<>>
  /\ fitness_scores = <<>>
  /\ best_fitness = 0
  /\ best_individual = None
  /\ convergence_history = <<>>
  /\ generations_without_improvement = 0
  /\ generation = 0
  /\ new_population = <<>>
  /\ ga_result = None
  /\ result = None
  /\ sa = NoSA
  /\ checked \in
       [Days -> [1..Len(generate_time_slots(CheckedGrid)) ->
          {None,
           LecturePlaced(ClassInfo(CourseA, 1)), LecturePlaced(ClassInfo(CourseB, 1)),
           LecturePlaced(ClassInfo(CourseB, 2)),
           LabPart(ClassInfo(CourseLab("A"), 1), 0, 2),
           LabPart(ClassInfo(CourseLab("A"), 1), 1, 2)}]]
  /\ constraint_set = <<>>
  /\ returned = None

\* a call of _check_no_conflicts
CheckNoConflicts ==
  /\ pc = "fitness"
  /\ returned' = [op |-> "_check_no_conflicts", timetable |-> checked,
                  value |-> check_no_conflicts(checked)]
  /\ UNCHANGED <<checked, constraint_set, optimizer_vars>>

\* a call of _check_teacher_workload
CheckTeacherWorkload ==
  /\ pc = "fitness"
  /\ returned' = [op |-> "_check_teacher_workload", timetable |-> checked,
                  value |-> check_teacher_workload(checked)]
  /\ UNCHANGED <<checked, constraint_set, optimizer_vars>>

\* a call of _mutate on the timetable
MutateTimetable ==
  /\ pc = "fitness"
  /\ \E mutated \in mutate(checked) :
       returned' = [op |-> "_mutate", individual |-> checked, value |-> mutated]
  /\ UNCHANGED <<checked, constraint_set, optimizer_vars>>

FitnessNext ==
  \/ CheckNoConflicts
  \/ CheckTeacherWorkload
  \/ MutateTimetable

FitnessSpec == FitnessInit /\ [][FitnessNext]_vars

(* ================= ConstraintSet (models/constraints.py) =============== *)
(* add_constraint and remove_constraint on one ConstraintSet. The list      *)
(* holds references: field object is the identity of the Constraint object  *)
(* an entry refers to, so that a constraint added twice is one object.      *)

\* lines 85-86: the id is assigned to the object passed (and so to every entry
\* that is this object), then the object is appended. The id is
\* f"{constraint.type}_{len(self.constraints)}_{hash(constraint.description)}",
\* its three parts kept apart; hash is taken as injective on the descriptions
add_constraint(constraints_list, constraint) ==
  LET id == <<constraint.type, Len(constraints_list), constraint.description>> IN
    Append([k \in Indices(constraints_list) |->
              IF constraints_list[k].object = constraint.object
              THEN [constraints_list[k] EXCEPT !.id = id]
              ELSE constraints_list[k]],
           [constraint EXCEPT !.id = id])

\* lines 90-94: the list after the call and the value returned
remove_constraint(constraints_list, constraint_id) ==
  IF \E k \in Indices(constraints_list) : constraints_list[k].id = constraint_id
  THEN LET i == CHOOSE k \in Indices(constraints_list) :
                  /\ constraints_list[k].id = constraint_id
                  /\ \A j \in 1..(k - 1) : constraints_list[j].id # constraint_id
       IN [constraints |-> SubSeq(constraints_list, 1, i - 1)
                           \o SubSeq(constraints_list, i + 1, Len(constraints_list)),
           value |-> TRUE]
  ELSE [constraints |-> constraints_list, value |-> FALSE]

ConstraintSetInit ==
  /\ constraints = CheckedGrid
  /\ courses = <<>>
  /\ algorithm = "genetic"
  /\ pc = "constraint_set"
  /\ time_slots = <<>>
  /\ population = <<>>
  /\ fitness_cache = <<>>
  /\ task = <<>>
  /\ fitness_scores = <<>>
  /\ best_fitness = 0
  /\ best_individual = None
  /\ convergence_history = <<>>
  /\ generations_without_improvement = 0
  /\ generation = 0
  /\ new_population = <<>>
  /\ ga_result = None
  /\ result = None
  /\ sa = NoSA
  /\ checked = None
  /\ constraint_set = <<>>
  /\ returned = None

\* a call of add_constraint (the list is kept within MaxConstraints) with a
\* new Constraint object (id None, written <<>>) or with an object the set
\* already holds
AddConstraint ==
  /\ pc = "constraint_set"
  /\ Len(constraint_set) < MaxConstraints
  /\ LET objects == {constraint_set[k].object : k \in Indices(constraint_set)}
         object == CHOOSE o \in 1..(Len(constraint_set) + 1) : o \notin objects
     IN \E constraint \in
            {BaseConstraint(<<>>, type, description) @@ [object |-> object] :
               type \in {"lunch_break", "workload_limit"},
               description \in {"Keep the lunch hour free", "At most 20 hours a week"}}
            \cup {constraint_set[k] : k \in Indices(constraint_set)} :
          /\ constraint_set' = add_constraint(constraint_set, constraint)
          /\ returned' = [op |-> "add_constraint", before |-> constraint_set,
                          argument |-> constraint.object]
  /\ UNCHANGED <<checked, optimizer_vars>>

\* a call of remove_constraint, with the id of a constraint of the set or
\* with an id no constraint has
RemoveConstraint ==
  /\ pc = "constraint_set"
  /\ \E id \in {constraint_set[k].id : k \in Indices(constraint_set)}
               \cup {<<"custom", 0, "">>} :
       LET after == remove_constraint(constraint_set, id) IN
         /\ constraint_set' = after.constraints
         /\ returned' = [op |-> "remove_constraint", before |-> constraint_set,
                         argument |-> id, value |-> after.value]
  /\ UNCHANGED <<checked, optimizer_vars>>

ConstraintSetNext ==
  \/ AddConstraint
  \/ RemoveConstraint

ConstraintSetSpec == ConstraintSetInit /\ [][ConstraintSetNext]_vars

(* ============================== the claims ============================= *)
StartsBeforeEnd(c) == time_to_minutes(c.start_time) < time_to_minutes(c.end_time)
LunchOrdered(c) == time_to_minutes(c.lunch_start) < time_to_minutes(c.lunch_end)
\* the configuration the specification calls valid (section 4.1)
ValidConfiguration ==
  /\ StartsBeforeEnd(constraints)
  /\ LunchOrdered(constraints)
  /\ generate_time_slots(constraints) # <<>>

\* the cells of a consecutive session's group are all there, in order
InGroup(timetable, d, i) ==
  LET x == timetable[d][i]
      N == x.total_duration
      first == i - (x.session_part[1] - 1)
  IN /\ x.session_part[2] = N
     /\ first >= 1
     /\ first + N - 1 <= Len(time_slots)
     /\ \A j \in 0..(N - 1) :
          /\ timetable[d][first + j] # None
          /\ timetable[d][first + j].session_part = <<j + 1, N>>
          /\ timetable[d][first + j].is_consecutive
          /\ timetable[d][first + j].course_code = x.course_code
          /\ timetable[d][first + j].teacher = x.teacher
          /\ timetable[d][first + j].room = x.room

GroupsIntact(timetable) ==
  \A c \in Occupied(timetable) :
    (At(timetable, c).is_consecutive /\ At(timetable, c).total_duration > 1)
      => InGroup(timetable, c[1], c[2])

HasGroup(timetable) ==
  \E c \in Occupied(timetable) :
    At(timetable, c).is_consecutive /\ At(timetable, c).total_duration > 1

\* C2: in every timetable the engine returns, every session with
\* is_consecutive and total_duration N > 1 lies in N contiguous cells of one
\* day holding parts 1/N..N/N of the same course, teacher and room.
C2_ReturnedGroupsIntact ==
  /\ ga_result # None => GroupsIntact(ga_result.timetable)
  /\ result # None => GroupsIntact(result.timetable)

C2_Witness == result # None /\ HasGroup(result.timetable)

NonDecreasing(history) ==
  \A i \in 1..Len(history) : \A j \in i..Len(history) : history[i] <= history[j]

\* C3: the best-ever score never decreases: convergence_history is
\* non-decreasing, best_fitness is its last element, and the fitness_score
\* optimize returns is the last element of the history it returns.
C3_BestNeverDecreases ==
  /\ NonDecreasing(convergence_history)
  /\ convergence_history # <<>>
       => best_fitness = convergence_history[Len(convergence_history)]
  /\ ga_result # None =>
       /\ ga_result.convergence_history = convergence_history
       /\ ga_result.fitness_score = convergence_history[Len(convergence_history)]

C3_Witness == ga_result # None /\ Len(ga_result.convergence_history) >= 2

\* C4: once the refinement phase (simulated annealing, or the second phase
\* of the hybrid) is over, it has returned a timetable whose fitness_score
\* is the best seen and not below the fitness of the seed.
C4_RefinementReturnsBest ==
  (algorithm # "genetic" /\ ga_result # None /\ pc # "refine")
    => /\ pc = "returned"
       /\ result.fitness_score >= ga_result.fitness_score
       /\ result.fitness_score = sa.best_fitness

\* C5: for a valid configuration the run never ends in the error of the
\* refinement loop's acceptance step.
C5_AcceptanceNeverRaises ==
  ValidConfiguration => pc # "AttributeError"

\* C7: no slot of the grid intersects the lunch interval: for every slot
\* with start s, [s, s + lecture_duration) and [lunch_start, lunch_end) are
\* disjoint.
C7_NoSlotInLunch ==
  \A i \in SlotIdx :
    LET s == time_to_minutes(time_slots[i]) IN
      ~(/\ s < time_to_minutes(constraints.lunch_end)
        /\ time_to_minutes(constraints.lunch_start) < s + constraints.lecture_duration
        /\ LunchOrdered(constraints))

\* C8: with start_time >= end_time, lunch_start >= lunch_end or an empty
\* grid, no individual is ever created and no result is produced.
C8_InvalidConfigurationRejected ==
  ~ValidConfiguration =>
     /\ population = <<>>
     /\ ga_result = None
     /\ result = None

\* C9: on a valid configuration a placement that cannot succeed is not
\* fatal: create_individual does not raise.
C9_InfeasiblePlacementNotFatal ==
  ValidConfiguration => pc \notin {"ValueError", "IndexError"}

\* C10: whatever calculate_fitness returns for a timetable, from the cache
\* or computed, is what a cache-free evaluation of that timetable gives.
C10_CachedFitnessIsFresh ==
  /\ \A i \in Indices(task) :
       task[i] = "done" => fitness_scores[i] = compute_fitness(population[i])
  /\ sa.neighbor # None => sa.neighbor_fitness = compute_fitness(sa.neighbor)

\* C11: under every interleaving of the workers' lookup, compute-and-insert
\* and return steps, the cache entry of every individual whose worker has
\* inserted holds exactly the fitness of that individual (a second insert
\* on the key rewrites the same value), and every delivered
\* fitness_scores[i] is the fitness of population[i]
C11_ParallelEvaluationExact ==
  \A i \in Indices(task) :
    /\ task[i] \in {"stored", "done"} =>
         /\ CacheHas(fitness_cache, hash_timetable(population[i]))
         /\ fitness_cache[hash_timetable(population[i])] = compute_fitness(population[i])
    /\ task[i] = "done" => fitness_scores[i] = compute_fitness(population[i])

\* two workers missed on one key and both have inserted
C11_Witness ==
  /\ pc = "evaluate"
  /\ \E i, j \in Indices(task) :
       /\ i # j
       /\ hash_timetable(population[i]) = hash_timetable(population[j])
       /\ Occupied(population[i]) # {}
       /\ task[i] = "stored" /\ task[j] = "stored"
\* the loop of optimize is past the bookkeeping of a generation
Tracked == pc \in {"elite", "offspring", "ga_done", "refine", "returned", "AttributeError"}

\* C12: however the generational loop stops (target reached, stagnation or
\* the generation cap), it stops with no evaluation under way and returns
\* the best individual so far: the returned timetable's own fitness is the
\* returned fitness_score, and that score is the greatest over the
\* individuals of every generation evaluated (each generation's scores are
\* at most the best recorded after it, and the record never decreases)
C12_StopReturnsBest ==
  /\ Tracked =>
       /\ \A i \in Indices(fitness_scores) : fitness_scores[i] <= best_fitness
       /\ best_fitness = convergence_history[Len(convergence_history)]
       /\ NonDecreasing(convergence_history)
       /\ best_individual # None
       /\ compute_fitness(best_individual) = best_fitness
  /\ ga_result # None =>
       /\ \A i \in Indices(task) : task[i] = "done"
       /\ ga_result.timetable = best_individual
       /\ ga_result.fitness_score = best_fitness
       /\ compute_fitness(ga_result.timetable) = ga_result.fitness_score

\* the loop has stopped and returned, and the best was not the first individual
C12_Witness ==
  /\ ga_result # None
  /\ fitness_scores[1] < fitness_scores[2]
  /\ ga_result.timetable = population[2]
\* the start minutes start_time + k * lecture_duration of the slots that end
\* by end_time
SteppingRange(c) ==
  LET start == time_to_minutes(c.start_time)
      steps == (time_to_minutes(c.end_time) - start) \div c.lecture_duration
  IN {start + k * c.lecture_duration : k \in 0..(steps - 1)}

StartsInLunch(c, m) ==
  time_to_minutes(c.lunch_start) <= m /\ m < time_to_minutes(c.lunch_end)

\* a finite set of minutes as the ascending list of its clock strings
AscendingTimes(S) ==
  [n \in 1..Cardinality(S) |->
     minutes_to_time(CHOOSE m \in S : Cardinality({x \in S : x < m}) = n - 1)]

C14_CheckingReadOnly ==
  [][pc = "checker" => checked' = checked /\ constraint_set' = constraint_set]_vars

\* a report was returned for a timetable that violates a constraint
C14_Witness ==
  /\ returned # None
  /\ returned.op = "get_constraint_report"
  /\ returned.value.violated_constraints > 0
  /\ Occupied(checked) # {}

\* the constraints of a list that are active
ActiveOf(cs) == SelectSeq(cs, LAMBDA c : c.is_active)

\* a lunch_break constraint one of whose times does not parse
UnparsableLunch(c) ==
  /\ c.type = "lunch_break"
  /\ "start_time" \in DOMAIN c
  /\ (Len(c.start_time) # 2 \/ Len(c.end_time) # 2)

\* C15: a lunch-break constraint with an unparsable time string is skipped
\* with a violation message reported for it: checked on its own it returns
\* exactly the one error message that names it, and every pass over a set
\* that holds it reports that message.
C15_MalformedTimeReported ==
  (returned # None /\ returned.op = "check_all_constraints") =>
    \A k \in 1..Len(constraint_set) :
      (constraint_set[k].is_active /\ UnparsableLunch(constraint_set[k])) =>
        /\ check_constraint(checked, constraint_set[k])
             = <<<<"Error checking constraint", constraint_set[k].description>>>>
        /\ InList(<<"Error checking constraint", constraint_set[k].description>>,
                  returned.value)

\* the per-type weights as the claim fixes them
C16_Weight(c) ==
  CASE c.type = "teacher_availability" -> 10
    [] c.type = "room_availability" -> 8
    [] c.type = "workload_limit" -> 7
    [] c.type = "time_restriction" -> 6
    [] c.type = "lunch_break" -> 5
    [] c.type = "consecutive_classes" -> 4
    [] c.type = "custom" -> 3

C16_TotalWeight(cs) == SumSeq([k \in 1..Len(cs) |-> C16_Weight(cs[k])])

C16_Violated(cs) ==
  SelectSeq(cs, LAMBDA c : check_all_constraints(checked, <<c>>) # <<>>)

\* C16: calculate_constraint_score returns
\* 100 * (total weight of the active constraints - weight of the active
\* constraints with a violation) / (total weight of the active constraints)
\* with the fixed weights, 100 when no constraint is active; the inactive
\* constraints change nothing, and the score lies within [0, 100].
C16_WeightedScore ==
  (returned # None /\ returned.op = "calculate_constraint_score") =>
    LET score == returned.value
        active == ActiveOf(constraint_set)
        total == C16_TotalWeight(active)
        violated == C16_TotalWeight(C16_Violated(active))
    IN /\ score.den > 0
       /\ total = 0 => score.num = 100 * score.den
       /\ total > 0 => score.num * total = 100 * (total - violated) * score.den
       /\ 0 <= score.num /\ score.num <= 100 * score.den
       /\ score = calculate_constraint_score(checked, active)

\* a score strictly between 0 and 100 was returned: one constraint of the
\* set is violated and one of another weight is satisfied
C16_Witness ==
  /\ returned # None
  /\ returned.op = "calculate_constraint_score"
  /\ 0 < returned.value.num
  /\ returned.value.num < 100 * returned.value.den
  /\ \E j, k \in 1..Len(constraint_set) :
       C16_Weight(constraint_set[j]) # C16_Weight(constraint_set[k])
\* the cells of a timetable that hold a session of a course
C13_Scheduled(timetable, course) ==
  Cardinality({c \in Occupied(timetable) : At(timetable, c).course_code = course.code})

\* the sub-score the claim states, in units of 1/FitDen
C13_SubScore(scheduled, required) ==
  IF scheduled = required THEN 100 * FitDen
  ELSE IF scheduled > required THEN (50 - 10 * (scheduled - required)) * FitDen
  ELSE (80 * scheduled * FitDen) \div required

\* C13: course completion. The completion score is the sum over the courses
\* of +100 if scheduled = required, 50 - 10 * (scheduled - required) if
\* scheduled > required, and 80 * scheduled / required if scheduled <
\* required; the summary's completion_rate of a course is
\* scheduled / required * 100: 100 for 3 of 3 and about 66.7 for 2 of 3.
C13_CourseCompletion ==
  /\ (returned # None /\ returned.op = "_check_course_completion") =>
       /\ returned.value =
            SumSeq([j \in 1..Len(courses) |->
                      C13_SubScore(C13_Scheduled(returned.timetable, courses[j]),
                                   courses[j].lectures_per_week)])
       /\ \A j \in 1..Len(courses) :
            (80 * C13_Scheduled(returned.timetable, courses[j]) * FitDen)
              % courses[j].lectures_per_week = 0
  /\ (returned # None /\ returned.op = "_generate_summary") =>
       \A j \in 1..Len(courses) :
         LET entry == returned.value.courses_completion[j] IN
           /\ entry.code = courses[j].code
           /\ entry.scheduled = C13_Scheduled(returned.timetable, courses[j])
           /\ entry.required = courses[j].lectures_per_week
           /\ entry.completion_rate * entry.required = entry.scheduled * 100 * FitDen
           /\ (entry.required = 3 /\ entry.scheduled = 3) =>
                entry.completion_rate = 100 * FitDen
           /\ (entry.required = 3 /\ entry.scheduled = 2) =>
                /\ 666 * FitDen < 10 * entry.completion_rate
                /\ 10 * entry.completion_rate < 668 * FitDen

\* a summary was returned for a timetable with 2 of a course's 3 sessions
C13_Witness ==
  /\ returned # None
  /\ returned.op = "_generate_summary"
  /\ \E j \in 1..Len(courses) :
       /\ returned.value.courses_completion[j].required = 3
       /\ returned.value.courses_completion[j].scheduled = 2

\* two cells of a timetable were exchanged and every other cell kept
C18_Swapped(before, after, c1, c2) ==
  /\ At(after, c1) = At(before, c2)
  /\ At(after, c2) = At(before, c1)
  /\ \A c \in Cells \ {c1, c2} : At(after, c) = At(before, c)

\* C18: mutation never splits a lab. _mutate returns an exact copy of its
\* input, or the input with the sessions of two occupied cells exchanged,
\* neither of them tagged is_consecutive; every cell that holds a
\* consecutive-tagged session is the same before and after; and the input
\* individual itself is left as it was.
C18_MutationKeepsLabs ==
  /\ []((returned # None /\ returned.op = "_mutate") =>
         LET before == returned.individual
             after == returned.value
         IN /\ \/ after = before
               \/ \E c1, c2 \in Occupied(before) :
                    /\ c1 # c2
                    /\ ~At(before, c1).is_consecutive
                    /\ ~At(before, c2).is_consecutive
                    /\ C18_Swapped(before, after, c1, c2)
            /\ \A c \in Occupied(before) :
                 At(before, c).is_consecutive => At(after, c) = At(before, c))
  /\ [][pc = "method" => population' = population]_vars

\* _mutate exchanged two lectures of a timetable that also holds a lab
C18_Witness ==
  /\ returned # None
  /\ returned.op = "_mutate"
  /\ returned.value # returned.individual
  /\ \E c \in Occupied(returned.individual) : At(returned.individual, c).is_consecutive

\* C19: crossover is day-atomic. For some split index among the working days
\* the child's schedule of every day before the split is parent A's schedule
\* of that day and of every day from the split on is parent B's; no day of
\* the child mixes cells of both parents, and neither parent is modified.
C19_CrossoverDayAtomic ==
  /\ []((returned # None /\ returned.op = "_crossover") =>
         \E split \in 0..(NumDays - 1) :
           \A d \in Days :
             returned.value[d] = IF d - 1 < split THEN returned.parent1[d]
                                 ELSE returned.parent2[d])
  /\ [][pc = "method" => population' = population]_vars

\* a child that took a day from each of two parents and equals neither
C19_Witness ==
  /\ returned # None
  /\ returned.op = "_crossover"
  /\ returned.value # returned.parent1
  /\ returned.value # returned.parent2
  /\ \E d \in Days : returned.value[d] = returned.parent1[d]
                     /\ returned.parent1[d] # returned.parent2[d]
  /\ \E d \in Days : returned.value[d] = returned.parent2[d]
                     /\ returned.parent1[d] # returned.parent2[d]

\* the individuals at the given indices are the best elite_size of a scored
\* population
C20_Top(chosen, scores) ==
  /\ Cardinality(chosen) = (IF elite_size < Len(scores) THEN elite_size ELSE Len(scores))
  /\ \A i \in chosen : \A j \in Indices(scores) \ chosen : scores[j] <= scores[i]

\* a list starts with copies of the best elite_size individuals
C20_StartsWithElite(list, pop, scores) ==
  \E chosen \in SUBSET Indices(pop) :
    /\ C20_Top(chosen, scores)
    /\ Len(list) >= Cardinality(chosen)
    /\ \E order \in [1..Cardinality(chosen) -> chosen] :
         /\ \A m, n \in DOMAIN order : m # n => order[m] # order[n]
         /\ \A n \in DOMAIN order : list[n] = pop[order[n]]

C20_BestOf(pop) == Max({compute_fitness(pop[i]) : i \in Indices(pop)})

\* C20: elitism. Each next generation holds unchanged copies of the best
\* elite_size individuals of the current one, so the best fitness within
\* the population never goes down from one generation to the next; and
\* while offspring are produced and mutated, the elite copies and the
\* members of the current generation stay as they are.
C20_Elitism ==
  /\ [][(pc = "elite" /\ pc' = "offspring") =>
          /\ C20_StartsWithElite(new_population', population, fitness_scores)
          /\ population' = population]_vars
  /\ [][(pc = "offspring" /\ pc' = "offspring") =>
          /\ SubSeq(new_population', 1, Len(new_population)) = new_population
          /\ population' = population]_vars
  /\ [][(pc \in {"elite", "offspring"} /\ population' # population) =>
          /\ C20_StartsWithElite(population', population, fitness_scores)
          /\ C20_BestOf(population') >= C20_BestOf(population)]_vars

\* the second generation holds, next to the elite copy, a child that differs
\* from it and scores lower
C20_Witness ==
  /\ pc = "evaluate"
  /\ generation = 1
  /\ \E i \in Indices(population) : population[i] # population[1]
  /\ \E i \in Indices(population) :
       compute_fitness(population[i]) < compute_fitness(population[1])
\* optimize is inside its generational loop, lines 502-558
InLoop == pc \in {"evaluate", "elite", "offspring"}

\* the steps a calculate_fitness call still has to take
C21_TaskSteps(state) ==
  CASE state = "queued" -> 3
    [] state = "miss" -> 2
    [] state = "stored" -> 1
    [] state = "done" -> 0

\* the steps the current generation still has to take, at most
C21_StageSteps ==
  CASE pc = "evaluate" ->
         SumSeq([i \in Indices(task) |-> C21_TaskSteps(task[i])]) + population_size + 2
    [] pc = "elite" -> population_size + 1
    [] pc = "offspring" -> population_size - Len(new_population)
    [] OTHER -> 0

\* the steps the loop still has to take, at most
C21_StepsLeft ==
  (generations - generation) * (4 * population_size + 3) + C21_StageSteps

IsLabPart(session) == session # None /\ session.is_consecutive

CellsOf(timetable, code) ==
  {c \in Occupied(timetable) : At(timetable, c).course_code = code}

\* the requests of a course that reached the timetable: first parts of lab
\* groups and sessions placed singly (part 1 of 1)
PlacedRequests(timetable, code) ==
  Cardinality({c \in CellsOf(timetable, code) :
                 At(timetable, c).session_part[1] = 1})

\* C22: in every individual the initializer returns, every lab request is in
\* the timetable (as a lab group, or else as a single non-consecutive session)
\* unless the timetable has no empty cell left.
C22_LabAlwaysPlaced ==
  \A n \in Indices(population) : \A k \in Indices(courses) :
    courses[k].type = "lab" =>
      \/ PlacedRequests(population[n], courses[k].code) >= courses[k].lectures_per_week
      \/ Occupied(population[n]) = Cells

TeacherDays(timetable, teacher, slot_index) ==
  {d \in Days : /\ timetable[d][slot_index] # None
                /\ timetable[d][slot_index].teacher = teacher}

\* C23: a lab is accepted only on empty consecutive slots in which its teacher
\* is free on every day, a lecture only in an empty cell whose slot index is
\* free of its teacher on every day: in every individual the initializer
\* returns each teacher occupies any slot index on at most one day, and every
\* lab group stands whole (no later placement took one of its cells).
C23_TeacherOncePerSlotIndex ==
  \A n \in Indices(population) :
    /\ \A s \in SlotIdx : \A k \in Indices(courses) :
         Cardinality(TeacherDays(population[n], courses[k].teacher, s)) <= 1
    /\ \A c \in Occupied(population[n]) :
         LET session == At(population[n], c) IN
           (IsLabPart(session) /\ session.session_part[1] < session.session_part[2]) =>
             /\ c[2] + 1 \in SlotIdx
             /\ IsLabPart(population[n][c[1]][c[2] + 1])
             /\ population[n][c[1]][c[2] + 1].course_code = session.course_code
             /\ population[n][c[1]][c[2] + 1].session_part =
                  <<session.session_part[1] + 1, session.session_part[2]>>

\* an individual with a lab group in which some teacher teaches on two days
C23_Witness ==
  \E n \in Indices(population) :
    /\ \E c \in Occupied(population[n]) : IsLabPart(At(population[n], c))
    /\ \E c, e \in Occupied(population[n]) :
         /\ c[1] # e[1]
         /\ At(population[n], c).teacher = At(population[n], e).teacher

\* C29: in every individual the initializer returns, each course occupies at
\* most lectures_per_week cells (scheduled <= required, completion <= 100%).
C29_NoCourseOverScheduled ==
  \A n \in Indices(population) : \A k \in Indices(courses) :
    Cardinality(CellsOf(population[n], courses[k].code)) <= courses[k].lectures_per_week

\* C30: in every lab group the initializer places, the next part starts
\* exactly one session duration after the part before it.
C30_LabPartsContiguousInTime ==
  \A n \in Indices(population) : \A c \in Occupied(population[n]) :
    LET session == At(population[n], c) IN
      (IsLabPart(session) /\ session.session_part[1] < session.session_part[2]) =>
        /\ c[2] + 1 \in SlotIdx
        /\ time_to_minutes(time_slots[c[2] + 1]) - time_to_minutes(time_slots[c[2]])
             = constraints.lecture_duration
(* ------------------- C24, C27: fitness components --------------------- *)
\* hours is within 20% of the mean total / n, on both sides
C24_Within20Percent(hours, total, n) ==
  hours * n * 5 <= total * 6 /\ hours * n * 5 >= total * 4

C24_TwoSided(timetable) ==
  LET teachers == TeachersOf(timetable)
      total == Cardinality(Occupied(timetable))
  IN SumOver(teachers, [t \in teachers |->
       IF C24_Within20Percent(CountWhere(timetable, LAMBDA x : x.teacher = t),
                              total, Cardinality(teachers))
       THEN 20 ELSE -10])

\* C24: _check_teacher_workload gives a teacher +20 exactly when the teacher's
\* session count is within 20% of the mean over the scheduled teachers,
\* neither more than 20% above nor more than 20% below it, and -10 otherwise.
C24_WorkloadWithin20Percent ==
  (returned # None /\ returned.op = "_check_teacher_workload") =>
    returned.value = C24_TwoSided(returned.timetable)

\* C27: for every timetable _check_no_conflicts returns 15 times the number
\* of occupied cells; the -200 and -150 penalties are never applied.
C27_NoConflictPenalty ==
  (returned # None /\ returned.op = "_check_no_conflicts") =>
    returned.value = 15 * Cardinality(Occupied(returned.timetable))

\* _check_no_conflicts has scored a timetable in which one teacher in one room
\* fills a whole day and one slot of every day
C27_Witness ==
  /\ returned # None
  /\ returned.op = "_check_no_conflicts"
  /\ \E c \in Occupied(returned.timetable) :
       \A e \in Cells :
         (e[1] = c[1] \/ e[2] = c[2]) =>
           /\ e \in Occupied(returned.timetable)
           /\ At(returned.timetable, e).teacher = At(returned.timetable, c).teacher
           /\ At(returned.timetable, e).room = At(returned.timetable, c).room
(* ------------------------ C25: ConstraintSet ids ---------------------- *)
\* C25: after any sequence of add_constraint and remove_constraint calls
\* every constraint of the set has an id no other constraint of the set has.
C25_IdsUnique ==
  \A i, j \in Indices(constraint_set) :
    i # j => constraint_set[i].id # constraint_set[j].id
(* --------------- C26: a session reaches the target at once ------------ *)
C26_NonEmpty == {i \in Indices(population) : Occupied(population[i]) # {}}

\* C26: an individual with at least one session has fitness >= target_fitness;
\* when the population holds one, optimize never reaches selection, crossover
\* or mutation, and it returns after the first evaluation: generation count 1,
\* a convergence history of length 1, and a timetable that is one of the
\* initializer's individuals.
C26_FirstGenerationStop ==
  /\ \A i \in C26_NonEmpty :
       compute_fitness(population[i]) >= target_fitness * FitDen
  /\ C26_NonEmpty # {} =>
       /\ pc \notin {"elite", "offspring"}
       /\ new_population = <<>>
       /\ generation = 0
       /\ ga_result # None =>
            /\ ga_result.generation = 1
            /\ Len(ga_result.convergence_history) = 1
            /\ \E i \in Indices(population) : ga_result.timetable = population[i]

\* optimize has returned on a population of two different individuals with
\* sessions
C26_Witness ==
  /\ ga_result # None
  /\ C26_NonEmpty = Indices(population)
  /\ \E i, j \in Indices(population) : population[i] # population[j]
(* ------------------ C28: what _mutate leaves as it is ----------------- *)
C28_Sessions(timetable) == {At(timetable, c) : c \in Occupied(timetable)}

C28_Count(timetable, Test(_)) ==
  Cardinality({c \in Occupied(timetable) : Test(At(timetable, c))})

\* C28: _mutate keeps the set of occupied cells and the multiset of sessions:
\* every session dict, and so every course, teacher and room, is held by as
\* many cells of the mutated timetable as of the input.
C28_MutationKeepsSessions ==
  (returned # None /\ returned.op = "_mutate") =>
    LET before == returned.individual
        after == returned.value
    IN /\ Occupied(after) = Occupied(before)
       /\ \A x \in C28_Sessions(before) \cup C28_Sessions(after) :
            /\ C28_Count(after, LAMBDA y : y = x) = C28_Count(before, LAMBDA y : y = x)
            /\ C28_Count(after, LAMBDA y : y.course_code = x.course_code)
                 = C28_Count(before, LAMBDA y : y.course_code = x.course_code)
            /\ C28_Count(after, LAMBDA y : y.teacher = x.teacher)
                 = C28_Count(before, LAMBDA y : y.teacher = x.teacher)
            /\ C28_Count(after, LAMBDA y : y.room = x.room)
                 = C28_Count(before, LAMBDA y : y.room = x.room)

\* _mutate exchanged the sessions of two different courses
C28_Witness ==
  /\ returned # None
  /\ returned.op = "_mutate"
  /\ \E c \in Occupied(returned.individual) :
       At(returned.value, c).course_code # At(returned.individual, c).course_code
====
